---- MODULE Spec2Model ----
(***************************************************************************)
(* The trice ID registry (package id): one synchronization pass            *)
(* cmdManageTriceIDs = preProcessing, tree walk, postProcessing over the   *)
(* persisted til.json (FormatTable), li.json (LocationTable) and the       *)
(* source tree.  preProcessing, postProcessing and cmdManageTriceIDs are   *)
(* translated from internal/id/manageIDs.go; the per-call-site step of the *)
(* walk and the readers and writers of the tables follow section 4.1 of    *)
(* the specification and internal/id/update_whitebox_test.go.              *)
(*                                                                         *)
(* The decode path: the line composer TriceLineComposer (package emitter)  *)
(* with its line writer, under the specification SpecLC; the receive loop  *)
(* doSerialReceive (cmd/trice/handleArgs.go) with the two channels of the  *)
(* serial receiver, under the specifications SpecRX and SpecRXFair; the    *)
(* format renderer for the integer verbs of TriceCheck, under SpecFR; the  *)
(* stream framer of section 4.2 of the specification, under SpecSF; the    *)
(* remote display RemoteDisplay (package emitter), under SpecRD.           *)
(*                                                                         *)
(* The command line: HandleArgs (cmd/trice/handleArgs.go), under SpecHA.   *)
(***************************************************************************)
EXTENDS Integers, Sequences, FiniteSets, TLC

\* ------------------------------------------------------------------ bounds
MaxSites == 1     \* call sites in the source tree
MaxFreshSites == 3 \* call sites in the source tree of a project without til.json and li.json
MaxTil   == 2     \* entries of the persisted til.json before the first pass
MaxRuns  == 2     \* invocations of the tool on the same tree
MaxRange == 3     \* upper end Max of the configured ID range

\* ------------------------------------------------------------ input domains
MinChoices == {0, 1}                 \* configured lower ends Min of the range
OutID      == MaxRange + 1           \* an ID above the configured range
SiteIDs    == {0, 1, OutID}          \* n in IDWRAPPER(n); 0 is the sentinel
TilIDs     == {1, MaxRange, OutID}   \* keys a persisted til.json may hold
LiIDs      == {2}                    \* keys a persisted li.json may hold

TriceFmt(t, s) == [Type |-> t, Strg |-> s]
Fmts == {TriceFmt("TRICE8", "value=%d"), TriceFmt("trice8", "value=%d"), TriceFmt("TRICE8", "hi %d")}
TilFmts == {TriceFmt("TRICE8", "value=%d"), TriceFmt("TRICE8", "hi %d")}

\* the call sites MACROTYPE( IDWRAPPER( n ), "format string", args... )
Sites == [id : SiteIDs \ {OutID}, fmt : Fmts] \cup {[id |-> OutID, fmt |-> TriceFmt("TRICE8", "value=%d")]}

\* a call site with a second ID of the range, at the end of the source tree
LastSite == [id |-> 2, fmt |-> TriceFmt("TRICE8", "hi %d")]

\* a call site without ID wrapper, MACROTYPE( "format string", args... )
NoID == -1
BareSite == [id |-> NoID, fmt |-> TriceFmt("trice8", "hi %d")]

\* a call site in a file of the tree that cannot be read
Unreadable == -2
UnreadSite == [id |-> Unreadable, fmt |-> TriceFmt("TRICE8", "hi %d")]

VARIABLES
    Min, Max, SharedIDs, DryRun, LIFnJSON,     \* configuration (package variables, flags)
    tilFile, liFile, srcTree,                  \* persisted files and the source tree
    idToTrice, triceToId, idToLocRef, idToLocNew, idCount, IDSpace,   \* idd idData
    pc, pos, run,                              \* control: phase, walk position, invocation
    resolved, allocs, added, idsAdded, start, prev,  \* history of the pass
    err, writeErr, ret                         \* the walk's error, the failed write, the return value

cfg   == <<Min, Max, SharedIDs, DryRun, LIFnJSON>>
files == <<tilFile, liFile, srcTree>>
idd   == <<idToTrice, triceToId, idToLocRef, idToLocNew, idCount, IDSpace>>
hist  == <<resolved, allocs, added, idsAdded, start, prev, err, writeErr, ret>>
registry == <<cfg, files, idd, pc, pos, run, hist>>

VARIABLES
    timestampFormat, prefix, suffix,           \* TriceLineComposer: configuration
    line, heap,                                \* p.line as a slice and the arrays behind the slices
    lw,                                        \* what the line writer was handed
    now, calls, started                        \* the clock and the history of the WriteString calls

composer == <<timestampFormat, prefix, suffix, line, heap, lw, now, calls, started>>

VARIABLES
    rxPc,                                      \* doSerialReceive: where the function stands
    b, reader, late,                           \* the b of the iteration, its goroutine, earlier goroutines
    bufferChannel, triceChannel,               \* the channels of the serial receiver
    input, channelsClosed,                     \* the serial input and what the receiver did at its end
    sentT, sentB, emitted                      \* what was delivered and what emit.Trice was called with

receiver == <<rxPc, b, reader, late, bufferChannel, triceChannel, input, channelsClosed,
              sentT, sentB, emitted>>

VARIABLES
    width, param,                              \* TRICE32, TRICE64: the bits of the parameter
    verb, out                                  \* the conversion of the format string and the rendered text

renderer == <<width, param, verb, out>>

VARIABLES
    endianness, wire,                          \* transfer byte order; the bytes not yet consumed
    frState, frame,                            \* SYNCING, IN_FRAME, EMIT; the bytes of the frame so far
    records, reported,                         \* the TraceRecords yielded; the framing errors reported
    encoded                                    \* what the wire was made from

framer == <<endianness, wire, frState, frame, records, reported, encoded>>

VARIABLES
    Err, PtrRPC,                               \* RemoteDisplay: the stored error, the rpc client
    written, served,                           \* the lines writeLine was called with; the calls the server got
    rdPc                                       \* the process: "running" or "exited"

display == <<Err, PtrRPC, written, served, rdPc>>

decodePath == <<composer, receiver, renderer, framer, display>>

VARIABLES
    osArgs, args,                              \* os.Args and the argument list handed to HandleArgs
    ran, returned                              \* the subcommand that ran; what HandleArgs came to

cmdline == <<osArgs, args, ran, returned>>

vars  == <<registry, decodePath, cmdline>>

\* -------------------------------------------------------------- map helpers
EmptyMap == [x \in {} |-> 0]

\* the build path (trice insert) runs without a line composer
composerUnused ==
    /\ timestampFormat = "off"
    /\ prefix = <<>>
    /\ suffix = <<>>
    /\ line = [arr |-> 0, len |-> 0]
    /\ heap = <<>>
    /\ lw = <<>>
    /\ now = 0
    /\ calls = <<>>
    /\ started = 0

\* no serial receiver is set up
receiverUnused ==
    /\ rxPc = "off"
    /\ b = <<>>
    /\ reader = "none"
    /\ late = 0
    /\ bufferChannel = <<>>
    /\ triceChannel = <<>>
    /\ input = "off"
    /\ channelsClosed = FALSE
    /\ sentT = <<>>
    /\ sentB = <<>>
    /\ emitted = <<>>

\* nothing is rendered
rendererUnused ==
    /\ width = 0
    /\ param = <<>>
    /\ verb = ""
    /\ out = <<>>

\* no stream is framed
framerUnused ==
    /\ endianness = "off"
    /\ wire = <<>>
    /\ frState = "off"
    /\ frame = <<>>
    /\ records = <<>>
    /\ reported = 0
    /\ encoded = <<>>

\* no remote display is set up
displayUnused ==
    /\ Err = "nil"
    /\ PtrRPC = "nil"
    /\ written = <<>>
    /\ served = <<>>
    /\ rdPc = "off"

decodePathUnused ==
    composerUnused /\ receiverUnused /\ rendererUnused /\ framerUnused /\ displayUnused

\* the command line is not looked at
cmdlineUnused ==
    /\ osArgs = <<>>
    /\ args = <<>>
    /\ ran = "none"
    /\ returned = "off"

Put(m, k, v) == [x \in (DOMAIN m) \cup {k} |-> IF x = k THEN v ELSE m[x]]

Range(s) == {s[i] : i \in DOMAIN s}

\* the ascending sequence of the elements of the finite set of integers S
RECURSIVE SortedSeq(_)
SortedSeq(S) ==
    IF S = {} THEN <<>>
    ELSE LET m == CHOOSE x \in S : \A y \in S : x <= y
         IN  <<m>> \o SortedSeq(S \ {m})

\* all orders in which the elements of the finite set S can be listed
RECURSIVE Perms(_)
Perms(S) ==
    IF S = {} THEN {<<>>}
    ELSE UNION {{<<x>> \o p : p \in Perms(S \ {x})} : x \in S}

\* ---------------------------------------------------------- persisted tables
\* til.json as written: the entries sorted ascending by ID
toFile(lut) == [i \in 1..Cardinality(DOMAIN lut) |->
                  [id  |-> SortedSeq(DOMAIN lut)[i],
                   fmt |-> lut[SortedSeq(DOMAIN lut)[i]]]]

\* til.json as read: the ID lookup map
NewLut(file) == [k \in {file[i].id : i \in DOMAIN file} |->
                   (CHOOSE e \in Range(file) : e.id = k).fmt]

\* li.json as read; a disabled location file is not read
NewLutLI(file, fn) == IF fn \in {"off", "none"} THEN EmptyMap ELSE file

\* the files a previous invocation can have left: sorted, keys unique
TilFiles == {toFile(m) : m \in UNION {[d -> TilFmts] : d \in {e \in SUBSET TilIDs : Cardinality(e) <= MaxTil}}}

LiFiles == UNION {[d -> {0}] : d \in SUBSET LiIDs}

RECURSIVE SeqsUpTo(_, _)
SeqsUpTo(S, n) ==
    IF n = 0 THEN {<<>>}
    ELSE SeqsUpTo(S, n - 1) \cup {Append(s, x) : s \in {t \in SeqsUpTo(S, n - 1) : Len(t) = n - 1}, x \in S}

\* the source trees of at most n call sites
SrcTrees(n) ==
    SeqsUpTo(Sites, n)
    \cup {Append(s, LastSite) : s \in {u \in SeqsUpTo(Sites, n) : Len(u) < n}}
    \cup {Append(s, x) : s \in {u \in SeqsUpTo(Sites, n) : Len(u) < n /\ Len(u) <= MaxSites},
                         x \in {BareSite, UnreadSite}}

\* the call sites that follow the first one in a project with a til.json or a
\* li.json
FollowSites ==
    {LastSite,
     [id |-> 0, fmt |-> TriceFmt("TRICE8", "value=%d")],
     [id |-> 1, fmt |-> TriceFmt("trice8", "value=%d")]}

\* the source trees of at most n call sites of a project with a til.json or a
\* li.json
SrcTreesWithTables(n) ==
    SeqsUpTo(Sites, 1)
    \cup {<<x>> : x \in {LastSite, BareSite, UnreadSite}}
    \cup {s \o f : s \in {<<x>> : x \in Sites}, f \in SeqsUpTo(FollowSites, n - 1)}

\* the reversed lookups reverseS can return: per TriceFmt the IDs that carry
\* it, in the order the map iteration happens to deliver them
Reversals(lut) ==
    LET fs == {lut[k] : k \in DOMAIN lut}
    IN  {r \in [fs -> UNION {Perms({k \in DOMAIN lut : lut[k] = f}) : f \in fs}] :
            \A f \in fs : Range(r[f]) = {k \in DOMAIN lut : lut[k] = f}}

\* ---------------------------------------------------------------- IDSpace
\* mutant: the loop over the range starts one ID late
RECURSIVE CreateIDSpaceSkipFirst(_, _, _, _)
CreateIDSpaceSkipFirst(lo, hi, lut, loc) ==
    IF lo + 1 > hi THEN <<>>
    ELSE (IF lo + 1 \notin DOMAIN lut /\ lo + 1 \notin DOMAIN loc THEN <<lo + 1>> ELSE <<>>)
         \o CreateIDSpaceSkipFirst(lo + 1, hi, lut, loc)

\* the unused IDs of [lo, hi] in ascending order
RECURSIVE CreateIDSpace(_, _, _, _)
CreateIDSpace(lo, hi, lut, loc) ==
    IF lo > hi THEN <<>>
    ELSE (IF lo \notin DOMAIN lut /\ lo \notin DOMAIN loc THEN <<lo>> ELSE <<>>)
         \o CreateIDSpace(lo + 1, hi, lut, loc)

\* the values of the flag for the location file: a file name and "off", which
\* switches the location file off; its second spelling "none" is taken for
\* the projects that have a li.json and no til.json
LIFnJSONs(til, li) ==
    IF til = <<>> /\ li # EmptyMap THEN {"li.json", "off", "none"} ELSE {"li.json", "off"}

\* -------------------------------------------------------------------- Init
Init ==
    /\ Min \in MinChoices
    /\ Max = MaxRange
    /\ SharedIDs \in BOOLEAN
    /\ DryRun \in BOOLEAN
    /\ tilFile \in TilFiles
    /\ liFile \in LiFiles
    /\ LIFnJSON \in LIFnJSONs(tilFile, liFile)
    /\ srcTree \in IF tilFile = <<>> /\ liFile = EmptyMap
                    THEN SrcTrees(MaxFreshSites)
                    ELSE SrcTreesWithTables(MaxSites)
    /\ idToTrice = EmptyMap
    /\ triceToId = EmptyMap
    /\ idToLocRef = EmptyMap
    /\ idToLocNew = EmptyMap
    /\ idCount = 0
    /\ IDSpace = <<>>
    /\ pc = "start"
    /\ pos = 1
    /\ run = 1
    /\ resolved = <<>>
    /\ allocs = <<>>
    /\ added = EmptyMap
    /\ idsAdded = 0
    /\ start = [til |-> tilFile, li |-> liFile, src |-> srcTree]
    /\ prev = [valid |-> FALSE]
    /\ err = "nil"
    /\ writeErr = "nil"
    /\ ret = "none"
    /\ decodePathUnused
    /\ cmdlineUnused

\* ------------------------------------------------------------ preProcessing
\* mutant: the new location table starts as the one read from li.json
preProcessingKeepLoc ==
    /\ pc = "start"
    /\ idToTrice' = NewLut(tilFile)
    /\ triceToId' \in Reversals(idToTrice')
    /\ idCount' = Cardinality(DOMAIN idToTrice')
    /\ idToLocRef' = NewLutLI(liFile, LIFnJSON)
    /\ idToLocNew' = idToLocRef'
    /\ IDSpace' = CreateIDSpace(Min, Max, idToTrice', idToLocRef')
    /\ pc' = "walk"
    /\ pos' = 1
    /\ UNCHANGED <<decodePath, cmdline, cfg, files, run, hist>>

preProcessing ==
    /\ pc = "start"
    /\ idToTrice' = NewLut(tilFile)
    /\ triceToId' \in Reversals(idToTrice')
    /\ idCount' = Cardinality(DOMAIN idToTrice')
    /\ idToLocRef' = NewLutLI(liFile, LIFnJSON)
    /\ idToLocNew' = EmptyMap
    /\ IDSpace' = CreateIDSpace(Min, Max, idToTrice', idToLocRef')
    /\ pc' = "walk"
    /\ pos' = 1
    /\ UNCHANGED <<decodePath, cmdline, cfg, files, run, hist>>

\* ------------------------------------------------------------ the tree walk
\* the walk visits the call sites in a fixed order; site is the one at pos
AtSite == pc = "walk" /\ pos <= Len(srcTree)

site == srcTree[pos]

InRange(n) == Min <= n /\ n <= Max

\* the IDs the reverse lookup lists for the TriceFmt f
idsOf(f) == IF f \in DOMAIN triceToId THEN triceToId[f] ELSE <<>>

\* mutant: only the formats of the loaded til.json are looked up
ReusableLoadedOnly(f) ==
    /\ SharedIDs
    /\ idsOf(f) # <<>>
    /\ \E i \in DOMAIN start.til : start.til[i].fmt = f

\* a call site without ID takes over a listed ID: shared IDs only
Reusable(f) == SharedIDs /\ idsOf(f) # <<>>

\* the next ID of IDSpace
newID(space) == Head(space)

\* the call site at position i rewritten in place with the ID n; not in a dry run
Rewrite(tree, i, n) == IF DryRun THEN tree ELSE [tree EXCEPT ![i].id = n]

\* ID 0, format known: the first listed ID is taken over, the source stays as it is
reuseID ==
    /\ AtSite
    /\ site.id = 0
    /\ Reusable(site.fmt)
    /\ resolved' = Append(resolved, Head(idsOf(site.fmt)))
    /\ pos' = pos + 1
    /\ UNCHANGED <<decodePath, cmdline, cfg, files, idd, pc, run, allocs, added, idsAdded, start, prev, err, writeErr, ret>>

\* ID 0, no ID to take over: the next ID of IDSpace goes into both lookups and
\* into the source
insertID ==
    /\ AtSite
    /\ site.id = 0
    /\ ~Reusable(site.fmt)
    /\ IDSpace # <<>>
    /\ LET n == newID(IDSpace)
           f == site.fmt
       IN  /\ IDSpace' = Tail(IDSpace)
           /\ allocs' = Append(allocs,
                  [id |-> n,
                   fresh |-> /\ n \notin DOMAIN idToTrice
                             /\ n \notin DOMAIN idToLocRef
                             /\ \A i \in DOMAIN allocs : allocs[i].id # n])
           /\ idToTrice' = Put(idToTrice, n, f)
           /\ triceToId' = Put(triceToId, f, Append(idsOf(f), n))
           /\ added' = Put(added, n, IF n \in DOMAIN added THEN added[n] + 1 ELSE 1)
           /\ srcTree' = Rewrite(srcTree, pos, n)
           /\ resolved' = Append(resolved, n)
    /\ pos' = pos + 1
    /\ UNCHANGED <<decodePath, cmdline, cfg, tilFile, liFile, idToLocRef, idToLocNew, idCount, pc, run,
                   idsAdded, start, prev, err, writeErr, ret>>

\* ID 0 and IDSpace is used up: the tool gives up
noIDLeft ==
    /\ AtSite
    /\ site.id = 0
    /\ ~Reusable(site.fmt)
    /\ IDSpace = <<>>
    /\ pc' = "fatal"
    /\ UNCHANGED <<decodePath, cmdline, cfg, files, idd, pos, run, hist>>

\* mutant: only a call site whose ID goes into the ID lookup is located
refreshIDLocatedWhenNew ==
    /\ AtSite
    /\ site.id # 0
    /\ InRange(site.id)
    /\ LET n == site.id
       IN  /\ IF n \in DOMAIN idToTrice
              THEN UNCHANGED <<idToTrice, added, idToLocNew>>
              ELSE /\ idToTrice' = Put(idToTrice, n, site.fmt)
                   /\ added' = Put(added, n, IF n \in DOMAIN added THEN added[n] + 1 ELSE 1)
                   /\ idToLocNew' = Put(idToLocNew, n, pos)
           /\ resolved' = Append(resolved, n)
    /\ pos' = pos + 1
    /\ UNCHANGED <<decodePath, cmdline, cfg, files, triceToId, idToLocRef, idCount, IDSpace, pc, run,
                   allocs, idsAdded, start, prev, err, writeErr, ret>>

\* mutant: the ID of the call site is located but not listed
refreshIDUnlisted ==
    /\ AtSite
    /\ site.id # 0
    /\ InRange(site.id)
    /\ idToLocNew' = Put(idToLocNew, site.id, pos)
    /\ resolved' = Append(resolved, site.id)
    /\ pos' = pos + 1
    /\ UNCHANGED <<decodePath, cmdline, cfg, files, idToTrice, triceToId, idToLocRef, idCount, IDSpace, pc, run,
                   allocs, added, idsAdded, start, prev, err, writeErr, ret>>

\* an ID n # 0 of the range: it goes into the ID lookup unless n is in there
\* already (a different format under n is reported, not corrected); the
\* location is recorded in any case
refreshID ==
    /\ AtSite
    /\ site.id # 0
    /\ InRange(site.id)
    /\ LET n == site.id
       IN  /\ IF n \in DOMAIN idToTrice
              THEN UNCHANGED <<idToTrice, added>>
              ELSE /\ idToTrice' = Put(idToTrice, n, site.fmt)
                   /\ added' = Put(added, n, IF n \in DOMAIN added THEN added[n] + 1 ELSE 1)
           /\ idToLocNew' = Put(idToLocNew, n, pos)
           /\ resolved' = Append(resolved, n)
    /\ pos' = pos + 1
    /\ UNCHANGED <<decodePath, cmdline, cfg, files, triceToId, idToLocRef, idCount, IDSpace, pc, run,
                   allocs, idsAdded, start, prev, err, writeErr, ret>>

\* mutant: a call site that cannot be parsed ends the walk
skipSiteAndStop ==
    /\ AtSite
    /\ site.id \notin {0, Unreadable}
    /\ ~InRange(site.id)
    /\ resolved' = Append(resolved, "skipped")
    /\ pos' = Len(srcTree) + 1
    /\ UNCHANGED <<decodePath, cmdline, cfg, files, idd, pc, run, allocs, added, idsAdded, start, prev, err, writeErr, ret>>

\* an ID n # 0 outside the range is a parse error, and a call site without ID
\* wrapper is not recognized: the call site is skipped
skipSite ==
    /\ AtSite
    /\ site.id \notin {0, Unreadable}
    /\ ~InRange(site.id)
    /\ resolved' = Append(resolved, "skipped")
    /\ pos' = pos + 1
    /\ UNCHANGED <<decodePath, cmdline, cfg, files, idd, pc, run, allocs, added, idsAdded, start, prev, err, writeErr, ret>>

\* a file of the tree cannot be read: the error is reported, the file is
\* skipped and the walk goes on; the walk returns the error
skipFile ==
    /\ AtSite
    /\ site.id = Unreadable
    /\ err' = "walk error"
    /\ resolved' = Append(resolved, "skipped")
    /\ pos' = pos + 1
    /\ UNCHANGED <<decodePath, cmdline, cfg, files, idd, pc, run, allocs, added, idsAdded, start, prev, writeErr, ret>>

\* ----------------------------------------------------------- postProcessing
\* mutant: til.json is written only when more than one ID was added
postProcessingLateWrite(io) ==
    /\ pc = "walk"
    /\ pos > Len(srcTree)
    /\ idsAdded' = Cardinality(DOMAIN idToTrice) - idCount
    /\ LET writeTil == idsAdded' > 1 /\ ~DryRun
           writeLi  == LIFnJSON \notin {"off", "none"}
           tilFails == writeTil /\ io = "til fails"
           liFails  == ~tilFails /\ writeLi /\ io = "li fails"
       IN  /\ io = "til fails" => writeTil
           /\ io = "li fails" => writeLi
           /\ tilFile' = IF writeTil /\ ~tilFails THEN toFile(idToTrice) ELSE tilFile
           /\ liFile' = IF writeLi /\ ~tilFails /\ ~liFails THEN idToLocNew ELSE liFile
           /\ writeErr' = IF tilFails THEN "til.json" ELSE IF liFails THEN "li.json" ELSE "nil"
           /\ pc' = IF tilFails \/ liFails THEN "fatal" ELSE "done"
           /\ ret' = IF tilFails \/ liFails THEN "none" ELSE err
    /\ UNCHANGED <<decodePath, cmdline, cfg, srcTree, idd, pos, run, resolved, allocs, added, start, prev, err>>

\* mutant: only "off" switches the location file off
postProcessingOffOnly(io) ==
    /\ pc = "walk"
    /\ pos > Len(srcTree)
    /\ idsAdded' = Cardinality(DOMAIN idToTrice) - idCount
    /\ LET writeTil == idsAdded' > 0 /\ ~DryRun
           writeLi  == LIFnJSON # "off"
           tilFails == writeTil /\ io = "til fails"
           liFails  == ~tilFails /\ writeLi /\ io = "li fails"
       IN  /\ io = "til fails" => writeTil
           /\ io = "li fails" => writeLi
           /\ tilFile' = IF writeTil /\ ~tilFails THEN toFile(idToTrice) ELSE tilFile
           /\ liFile' = IF writeLi /\ ~tilFails /\ ~liFails THEN idToLocNew ELSE liFile
           /\ writeErr' = IF tilFails THEN "til.json" ELSE IF liFails THEN "li.json" ELSE "nil"
           /\ pc' = IF tilFails \/ liFails THEN "fatal" ELSE "done"
           /\ ret' = IF tilFails \/ liFails THEN "none" ELSE err
    /\ UNCHANGED <<decodePath, cmdline, cfg, srcTree, idd, pos, run, resolved, allocs, added, start, prev, err>>

\* mutant: a failed write is reported and the pass carries on
postProcessingCarriesOn(io) ==
    /\ pc = "walk"
    /\ pos > Len(srcTree)
    /\ idsAdded' = Cardinality(DOMAIN idToTrice) - idCount
    /\ LET writeTil == idsAdded' > 0 /\ ~DryRun
           writeLi  == LIFnJSON \notin {"off", "none"}
           tilFails == writeTil /\ io = "til fails"
           liFails  == ~tilFails /\ writeLi /\ io = "li fails"
       IN  /\ io = "til fails" => writeTil
           /\ io = "li fails" => writeLi
           /\ tilFile' = IF writeTil /\ ~tilFails THEN toFile(idToTrice) ELSE tilFile
           /\ liFile' = IF writeLi /\ ~(io = "li fails") THEN idToLocNew ELSE liFile
           /\ writeErr' = IF tilFails THEN "til.json" ELSE IF liFails THEN "li.json" ELSE "nil"
           /\ pc' = "done"
           /\ ret' = err
    /\ UNCHANGED <<decodePath, cmdline, cfg, srcTree, idd, pos, run, resolved, allocs, added, start, prev, err>>

\* mutant: the error of the walk is dropped
postProcessingReturnsNil(io) ==
    /\ pc = "walk"
    /\ pos > Len(srcTree)
    /\ idsAdded' = Cardinality(DOMAIN idToTrice) - idCount
    /\ LET writeTil == idsAdded' > 0 /\ ~DryRun
           writeLi  == LIFnJSON \notin {"off", "none"}
           tilFails == writeTil /\ io = "til fails"
           liFails  == ~tilFails /\ writeLi /\ io = "li fails"
       IN  /\ io = "til fails" => writeTil
           /\ io = "li fails" => writeLi
           /\ tilFile' = IF writeTil /\ ~tilFails THEN toFile(idToTrice) ELSE tilFile
           /\ liFile' = IF writeLi /\ ~tilFails /\ ~liFails THEN idToLocNew ELSE liFile
           /\ writeErr' = IF tilFails THEN "til.json" ELSE IF liFails THEN "li.json" ELSE "nil"
           /\ pc' = IF tilFails \/ liFails THEN "fatal" ELSE "done"
           /\ ret' = IF tilFails \/ liFails THEN "none" ELSE "nil"
    /\ UNCHANGED <<decodePath, cmdline, cfg, srcTree, idd, pos, run, resolved, allocs, added, start, prev, err>>

\* io: what happens to the writes that are tried ("ok", or the one that fails)
postProcessing(io) ==
    /\ pc = "walk"
    /\ pos > Len(srcTree)
    /\ idsAdded' = Cardinality(DOMAIN idToTrice) - idCount
    /\ LET writeTil == idsAdded' > 0 /\ ~DryRun
           writeLi  == LIFnJSON \notin {"off", "none"}
           tilFails == writeTil /\ io = "til fails"
           liFails  == ~tilFails /\ writeLi /\ io = "li fails"
       IN  /\ io = "til fails" => writeTil
           /\ io = "li fails" => writeLi
           /\ tilFile' = IF writeTil /\ ~tilFails THEN toFile(idToTrice) ELSE tilFile
           /\ liFile' = IF writeLi /\ ~tilFails /\ ~liFails THEN idToLocNew ELSE liFile
           /\ writeErr' = IF tilFails THEN "til.json" ELSE IF liFails THEN "li.json" ELSE "nil"
           /\ pc' = IF tilFails \/ liFails THEN "fatal" ELSE "done"
           /\ ret' = IF tilFails \/ liFails THEN "none" ELSE err
    /\ UNCHANGED <<decodePath, cmdline, cfg, srcTree, idd, pos, run, resolved, allocs, added, start, prev, err>>

\* -------------------------------------------------------- cmdManageTriceIDs
\* one invocation: preProcessing, the walk, postProcessing
cmdManageTriceIDs ==
    \/ preProcessing
    \/ reuseID
    \/ insertID
    \/ noIDLeft
    \/ refreshID
    \/ skipSite
    \/ skipFile
    \/ \E io \in {"ok", "til fails", "li fails"} : postProcessing(io)

\* the tool is invoked again on what the last invocation left
invokeAgain ==
    /\ pc = "done"
    /\ run < MaxRuns
    /\ run' = run + 1
    /\ pc' = "start"
    /\ pos' = 1
    /\ prev' = [valid |-> TRUE, resolved |-> resolved,
                unchanged |-> start = [til |-> tilFile, li |-> liFile, src |-> srcTree]]
    /\ start' = [til |-> tilFile, li |-> liFile, src |-> srcTree]
    /\ resolved' = <<>>
    /\ allocs' = <<>>
    /\ added' = EmptyMap
    /\ idsAdded' = 0
    /\ err' = "nil"
    /\ writeErr' = "nil"
    /\ ret' = "none"
    /\ UNCHANGED <<decodePath, cmdline, cfg, files, idd>>

Next == cmdManageTriceIDs \/ invokeAgain

Spec == Init /\ [][Next]_vars
\* =========================================================== line composer
\* A string is the sequence of its pieces: the characters that spell a line
\* break, one by one, and pieces of other text that hold none of them.
LF == "\n"
CR == "\r"
BS == "\\"

\* the strings handed to WriteString
Fragments ==
    { <<>>, <<"a">>, <<LF>>,
      <<"a", LF>>, <<LF, "b">>, <<"a", LF, "b">>, <<LF, LF>>,
      <<"a", CR, LF>>, <<BS, "n">>, <<BS, "r", BS, "n", "b">>, <<"a", CR, LF, "b", BS, "n">>,
      <<"msg:value=">>, <<"200", LF>>, <<"a", LF, "b", LF, "c", LF>>, <<"a", CR>> }

MaxCalls == 3     \* WriteString calls on one composer

LineCap == 80     \* make([]string, 0, 80)

\* the readings of the clock, as time.StampMicro prints them
Stamps == <<"Jan  1 00:00:00.000001", "Jan  1 00:00:00.000002", "Jan  1 00:00:00.000003",
            "Jan  1 00:00:00.000004", "Jan  1 00:00:00.000005", "Jan  1 00:00:00.000006">>

\* strings.ReplaceAll(s, old, new): from the left, matches do not overlap
RECURSIVE ReplaceAll(_, _, _)
ReplaceAll(s, old, new) ==
    IF Len(s) < Len(old) THEN s
    ELSE IF SubSeq(s, 1, Len(old)) = old
         THEN new \o ReplaceAll(SubSeq(s, Len(old) + 1, Len(s)), old, new)
         ELSE <<Head(s)>> \o ReplaceAll(Tail(s), old, new)

\* strings.Split(s, sep) for a separator of one piece: Len = separators + 1
RECURSIVE Split(_, _)
Split(s, sep) ==
    IF \A i \in DOMAIN s : s[i] # sep THEN <<s>>
    ELSE LET k == CHOOSE i \in DOMAIN s : s[i] = sep /\ \A j \in 1..(i - 1) : s[j] # sep
         IN  <<SubSeq(s, 1, k - 1)>> \o Split(SubSeq(s, k + 1, Len(s)), sep)

\* mutant: in the last step every "\r" becomes a line break of its own
NormalizeEachCR(s) ==
    LET s0 == ReplaceAll(s, <<BS, "r", BS, "n">>, <<LF>>)
        s1 == ReplaceAll(s0, <<BS, "n">>, <<LF>>)
    IN  ReplaceAll(s1, <<CR>>, <<LF>>)

\* s0, s1, sn of WriteString: every spelling of a line break becomes "\n"
Normalize(s) ==
    LET s0 == ReplaceAll(s, <<BS, "r", BS, "n">>, <<LF>>)
        s1 == ReplaceAll(s0, <<BS, "n">>, <<LF>>)
    IN  ReplaceAll(s1, <<CR, LF>>, <<LF>>)

\* NewLineComposer: pf and sf
Affix(pre, str, post) ==
    LET x == pre \o str \o post
    IN  IF x = <<" ">> THEN <<>> ELSE x

\* p.timestamp() at the clock reading t
timestamp(fmt, t) ==
    CASE fmt = "LOCmicro" -> <<Stamps[t], "  ">>
      [] fmt = "UTCmicro" -> <<"UTC ", Stamps[t], "  ">>
      [] fmt \in {"off", "none"} -> <<>>
      [] fmt = "zero" -> <<"2006-01-02_1504-05 ">>
      [] OTHER -> <<fmt, " ">>

\* --------------------------------------------------------------- slices
\* a slice is the array it points into and its length; heap[a] is the array a
\* with its capacity and what was stored in it so far
View(h, sl) == IF sl.len = 0 THEN <<>> ELSE SubSeq(h[sl.arr].mem, 1, sl.len)

\* append(sl, elems...): in place while the capacity suffices, else into a new,
\* larger array
append(h, sl, elems) ==
    LET n == sl.len + Len(elems)
        a == h[sl.arr]
    IN  IF n <= a.cap
        THEN [heap |-> [h EXCEPT ![sl.arr].mem =
                           View(h, sl) \o elems \o SubSeq(a.mem, n + 1, Len(a.mem))],
              line |-> [arr |-> sl.arr, len |-> n]]
        ELSE [heap |-> Append(h, [cap |-> IF 2 * a.cap > n THEN 2 * a.cap ELSE n,
                                  mem |-> View(h, sl) \o elems]),
              line |-> [arr |-> Len(h) + 1, len |-> n]]

\* mutant: the line writer puts the line ahead of the earlier ones
writeLineAhead(st) ==
    [st EXCEPT !.lw = <<[ref |-> st.line, was |-> View(st.heap, st.line),
                         call |-> st.call, started |-> st.started]>> \o st.lw]

\* p.lw.writeLine(p.line): the line writer is handed the slice; was is what the
\* slice shows at that moment
writeLine(st) ==
    [st EXCEPT !.lw = Append(st.lw, [ref |-> st.line, was |-> View(st.heap, st.line),
                                     call |-> st.call, started |-> st.started])]

\* p.line = p.line[:0]
reset(st) == [st EXCEPT !.line = [arr |-> st.line.arr, len |-> 0]]

\* p.line = append(p.line, elems...)
collect(st, elems) ==
    LET r == append(st.heap, st.line, elems)
    IN  [st EXCEPT !.heap = r.heap, !.line = r.line]

\* mutant: the line break is not counted off
startAndCompleteLineUncounted(st, sx) ==
    LET s1 == writeLine([collect(st, <<st.ts, prefix, sx, suffix>>) EXCEPT !.started = st.call])
    IN  reset(s1)

\* mutant: the clock is read again for every line that is begun and completed
startAndCompleteLineClockRead(st, sx) ==
    LET s1 == writeLine([collect(st, <<timestamp(timestampFormat, st.call + st.lineEndCount - 1),
                                       prefix, sx, suffix>>) EXCEPT !.started = st.call])
    IN  [reset(s1) EXCEPT !.lineEndCount = st.lineEndCount - 1]

\* ------------------------------------------- the loop body of WriteString
\* st: p.line with the heap, the line writer, lineEndCount, emptyLine, ts
\* start new line && complete line
startAndCompleteLine(st, sx) ==
    LET s1 == writeLine([collect(st, <<st.ts, prefix, sx, suffix>>) EXCEPT !.started = st.call])
    IN  [reset(s1) EXCEPT !.lineEndCount = st.lineEndCount - 1]

\* mutant: the line is begun without the timestamp of the call
startLineUnstamped(st, sx) ==
    [collect(st, <<<<>>, prefix, sx>>) EXCEPT !.started = st.call,
                                             !.emptyLine = (st.emptyLine \/ Len(sx) = 0)]

\* start new line
startLine(st, sx) ==
    [collect(st, <<st.ts, prefix, sx>>) EXCEPT !.started = st.call,
                                              !.emptyLine = (st.emptyLine \/ Len(sx) = 0)]

\* mutant: the completing call begins the line anew
completeLineAnew(st, sx) ==
    LET s1 == writeLine(collect(reset(st), <<st.ts, prefix, sx, suffix>>))
    IN  [reset(s1) EXCEPT !.lineEndCount = st.lineEndCount - 1]

\* complete line
completeLine(st, sx) ==
    LET s1 == writeLine(collect(st, <<sx, suffix>>))
    IN  [reset(s1) EXCEPT !.lineEndCount = st.lineEndCount - 1]

\* mutant: the substring that extends the line is dropped
extendLineDropped(st, sx) == st

\* extend line
extendLine(st, sx) == collect(st, <<sx>>)

forBody(st, sx) ==
    IF st.line.len = 0 /\ 0 < st.lineEndCount THEN startAndCompleteLine(st, sx)
    ELSE IF st.line.len = 0 /\ st.lineEndCount = 0 THEN startLine(st, sx)
    ELSE IF 0 < st.line.len /\ 0 < st.lineEndCount THEN completeLine(st, sx)
    ELSE extendLine(st, sx)

\* for _, sx := range ss
RECURSIVE forRange(_, _)
forRange(st, ss) ==
    IF ss = <<>> THEN st ELSE forRange(forBody(st, Head(ss)), Tail(ss))

\* mutant: the empty line that was begun is left in p.line
cleanUpNever(st) == st

\* if emptyLine { p.line = p.line[:0] }
cleanUp(st) == IF st.emptyLine THEN reset(st) ELSE st

\* what a line writer that kept the slices it was handed finds in them
Seen(h, w) == [i \in DOMAIN w |-> View(h, w[i].ref)]

\* --------------------------------------------------------------- actions
\* NewLineComposer(lw, timestampFormat, prefix, suffix)
NewLineComposer ==
    /\ \E x \in {<<"off", <<>>, <<>>>>, <<"LOCmicro", <<"[">>, <<"]">>>>} :
          /\ timestampFormat = x[1]
          /\ prefix = Affix(<<>>, x[2], <<" ">>)
          /\ suffix = Affix(<<" ">>, x[3], <<>>)
    /\ heap = <<[cap |-> LineCap, mem |-> <<>>]>>
    /\ line = [arr |-> 1, len |-> 0]
    /\ lw = <<>>
    /\ now = 1
    /\ calls = <<>>
    /\ started = 0

\* mutant: the empty string is not returned on early
WriteStringOfAnything(s) ==
    /\ Len(calls) < MaxCalls
    /\ now' = now + 1
    /\ LET ss == Split(Normalize(s), LF)
           st == cleanUp(forRange([line |-> line, heap |-> heap, lw |-> lw,
                                   lineEndCount |-> Len(ss) - 1, emptyLine |-> FALSE,
                                   ts |-> timestamp(timestampFormat, now),
                                   call |-> Len(calls) + 1, started |-> started], ss))
       IN  /\ line' = st.line
           /\ heap' = st.heap
           /\ lw' = st.lw
           /\ started' = st.started
           /\ calls' = Append(calls, [s |-> s, ts |-> st.ts, n |-> Len(s), err |-> "nil",
                                      lines |-> Len(st.lw) - Len(lw),
                                      kept |-> View(st.heap, st.line),
                                      seen |-> Seen(st.heap, st.lw)])
    /\ UNCHANGED <<registry, cmdline, display, receiver, renderer, framer, timestampFormat, prefix, suffix>>

\* p.WriteString(s); n and err are the results, err is never assigned; the
\* clock goes on between two calls
WriteString(s) ==
    /\ Len(calls) < MaxCalls
    /\ now' = now + 1
    /\ IF Len(s) = 0
       THEN /\ calls' = Append(calls, [s |-> s, ts |-> <<>>, n |-> 0, err |-> "nil", lines |-> 0,
                                       kept |-> View(heap, line), seen |-> Seen(heap, lw)])
            /\ UNCHANGED <<line, heap, lw, started>>
       ELSE LET ss == Split(Normalize(s), LF)
                st == cleanUp(forRange([line |-> line, heap |-> heap, lw |-> lw,
                                        lineEndCount |-> Len(ss) - 1, emptyLine |-> FALSE,
                                        ts |-> timestamp(timestampFormat, now),
                                        call |-> Len(calls) + 1, started |-> started], ss))
            IN  /\ line' = st.line
                /\ heap' = st.heap
                /\ lw' = st.lw
                /\ started' = st.started
                /\ calls' = Append(calls, [s |-> s, ts |-> st.ts, n |-> Len(s), err |-> "nil",
                                           lines |-> Len(st.lw) - Len(lw),
                                           kept |-> View(st.heap, st.line),
                                           seen |-> Seen(st.heap, st.lw)])
    /\ UNCHANGED <<registry, cmdline, display, receiver, renderer, framer, timestampFormat, prefix, suffix>>

\* the build path is not running while lines are composed
registryUnused ==
    /\ Min = 1
    /\ Max = MaxRange
    /\ SharedIDs = FALSE
    /\ DryRun = FALSE
    /\ LIFnJSON = "off"
    /\ tilFile = <<>>
    /\ liFile = EmptyMap
    /\ srcTree = <<>>
    /\ idToTrice = EmptyMap
    /\ triceToId = EmptyMap
    /\ idToLocRef = EmptyMap
    /\ idToLocNew = EmptyMap
    /\ idCount = 0
    /\ IDSpace = <<>>
    /\ pc = "off"
    /\ pos = 1
    /\ run = 1
    /\ resolved = <<>>
    /\ allocs = <<>>
    /\ added = EmptyMap
    /\ idsAdded = 0
    /\ start = [til |-> <<>>, li |-> EmptyMap, src |-> <<>>]
    /\ prev = [valid |-> FALSE]
    /\ err = "nil"
    /\ writeErr = "nil"
    /\ ret = "none"

InitLC == registryUnused /\ cmdlineUnused /\ displayUnused /\ receiverUnused /\ rendererUnused /\ framerUnused /\ NewLineComposer

NextLC == \E s \in Fragments : WriteString(s)

SpecLC == InitLC /\ [][NextLC]_vars

\* ============================================================ receive loop
MaxTrices == 2    \* trice records the receiver delivers on the trice channel
MaxChunks == 2    \* byte chunks the receiver delivers on the buffer channel
ChanCap   == 2    \* values a channel of the receiver holds

\* goroutines of earlier iterations that still wait at the buffer channel: more
\* of them than chunks can arrive make no difference
MaxLate == MaxChunks

\* <-ch: the oldest value; the zero value nil on a closed, drained channel
CanReceive(ch) == ch # <<>> \/ channelsClosed

Received(ch) == IF ch # <<>> THEN Head(ch) ELSE <<>>

Rest1(ch) == IF ch # <<>> THEN Tail(ch) ELSE <<>>

\* serialReceiver.SetUp() and, if it succeeds, serialReceiver.Start()
SetUp(ok) ==
    /\ rxPc = "setUp"
    /\ rxPc' = IF ok THEN "loop" ELSE "returned"
    /\ UNCHANGED <<registry, cmdline, display, composer, renderer, framer, b, reader, late, bufferChannel, triceChannel, input,
                   channelsClosed, sentT, sentB, emitted>>

\* var t, b []byte; go func() {...}()
goReadBuffer ==
    /\ rxPc = "loop"
    /\ rxPc' = "recv"
    /\ b' = <<>>
    /\ reader' = "waiting"
    /\ UNCHANGED <<registry, cmdline, display, composer, renderer, framer, late, bufferChannel, triceChannel, input,
                   channelsClosed, sentT, sentB, emitted>>

\* the goroutine of the iteration: c := <-bufferChannel; b = append(b, c...)
readBuffer ==
    /\ rxPc = "recv"
    /\ reader = "waiting"
    /\ CanReceive(bufferChannel)
    /\ b' = b \o Received(bufferChannel)
    /\ bufferChannel' = Rest1(bufferChannel)
    /\ reader' = "done"
    /\ UNCHANGED <<registry, cmdline, display, composer, renderer, framer, rxPc, late, triceChannel, input,
                   channelsClosed, sentT, sentB, emitted>>

\* the goroutine of an earlier iteration: it appends to the b of that iteration
readBufferLate ==
    /\ late > 0
    /\ CanReceive(bufferChannel)
    /\ bufferChannel' = Rest1(bufferChannel)
    /\ late' = late - 1
    /\ UNCHANGED <<registry, cmdline, display, composer, renderer, framer, rxPc, b, reader, triceChannel, input,
                   channelsClosed, sentT, sentB, emitted>>

\* mutant: the newest record is taken from the trice channel
receiveTriceNewest ==
    /\ rxPc = "recv"
    /\ CanReceive(triceChannel)
    /\ LET t == IF triceChannel # <<>> THEN triceChannel[Len(triceChannel)] ELSE <<>>
       IN  \E bb \in {b, <<>>} :
              emitted' = IF t = <<>> /\ bb = <<>> THEN emitted
                         ELSE Append(emitted, [t |-> t, b |-> bb])
    /\ triceChannel' = IF triceChannel # <<>> THEN SubSeq(triceChannel, 1, Len(triceChannel) - 1) ELSE <<>>
    /\ b' = <<>>
    /\ reader' = "none"
    /\ late' = IF reader = "waiting" /\ late < MaxLate THEN late + 1 ELSE late
    /\ rxPc' = "loop"
    /\ UNCHANGED <<registry, cmdline, display, composer, renderer, framer, bufferChannel, input, channelsClosed, sentT, sentB>>

\* t = <-triceChannel; emit.Trice(t, b, ...): b is read without synchronization
\* with the goroutine that appends to it, so the read finds b as it is or as it
\* was declared; the iteration ends and its b is given up
receiveTrice ==
    /\ rxPc = "recv"
    /\ CanReceive(triceChannel)
    /\ \E bb \in {b, <<>>} :
          emitted' = IF Received(triceChannel) = <<>> /\ bb = <<>> THEN emitted
                     ELSE Append(emitted, [t |-> Received(triceChannel), b |-> bb])
    /\ triceChannel' = Rest1(triceChannel)
    /\ b' = <<>>
    /\ reader' = "none"
    /\ late' = IF reader = "waiting" /\ late < MaxLate THEN late + 1 ELSE late
    /\ rxPc' = "loop"
    /\ UNCHANGED <<registry, cmdline, display, composer, renderer, framer, bufferChannel, input, channelsClosed, sentT, sentB>>

\* --------------------------------------------------- the serial receiver
\* a trice record is delivered on the trice channel
sendTrice ==
    /\ rxPc \in {"loop", "recv"}
    /\ input = "open"
    /\ Len(sentT) < MaxTrices
    /\ Len(triceChannel) < ChanCap
    /\ triceChannel' = Append(triceChannel, <<Len(sentT) + 1>>)
    /\ sentT' = Append(sentT, <<Len(sentT) + 1>>)
    /\ UNCHANGED <<registry, cmdline, display, composer, renderer, framer, rxPc, b, reader, late, bufferChannel, input,
                   channelsClosed, sentB, emitted>>

\* a chunk of bytes, possibly an empty one, is delivered on the buffer channel
sendBuffer(empty) ==
    /\ rxPc \in {"loop", "recv"}
    /\ input = "open"
    /\ Len(sentB) < MaxChunks
    /\ Len(bufferChannel) < ChanCap
    /\ LET c == IF empty THEN <<>> ELSE <<Len(sentB) + 1>>
       IN  /\ bufferChannel' = Append(bufferChannel, c)
           /\ sentB' = Append(sentB, c)
    /\ UNCHANGED <<registry, cmdline, display, composer, renderer, framer, rxPc, b, reader, late, triceChannel, input,
                   channelsClosed, sentT, emitted>>

\* the serial input ends; the receiver closes its channels or leaves them open
closeInput(closing) ==
    /\ rxPc \in {"loop", "recv"}
    /\ input = "open"
    /\ input' = "closed"
    /\ channelsClosed' = closing
    /\ UNCHANGED <<registry, cmdline, display, composer, renderer, framer, rxPc, b, reader, late, bufferChannel, triceChannel,
                   sentT, sentB, emitted>>

\* receiver.NewSerialReceiver(port, baud)
NewSerialReceiver ==
    /\ rxPc = "setUp"
    /\ b = <<>>
    /\ reader = "none"
    /\ late = 0
    /\ bufferChannel = <<>>
    /\ triceChannel = <<>>
    /\ input = "open"
    /\ channelsClosed = FALSE
    /\ sentT = <<>>
    /\ sentB = <<>>
    /\ emitted = <<>>

InitRX == registryUnused /\ cmdlineUnused /\ displayUnused /\ composerUnused /\ rendererUnused /\ framerUnused /\ NewSerialReceiver

doSerialReceive ==
    \/ \E ok \in BOOLEAN : SetUp(ok)
    \/ goReadBuffer
    \/ readBuffer
    \/ readBufferLate
    \/ receiveTrice

NextRX ==
    \/ doSerialReceive
    \/ sendTrice
    \/ \E empty \in BOOLEAN : sendBuffer(empty)
    \/ \E closing \in BOOLEAN : closeInput(closing)

SpecRX == InitRX /\ [][NextRX]_vars

\* every goroutine that can run is run at some time
SpecRXFair ==
    /\ SpecRX
    /\ WF_vars(goReadBuffer)
    /\ WF_vars(readBuffer)
    /\ WF_vars(readBufferLate)
    /\ WF_vars(receiveTrice)

\* ========================================================= format renderer
\* The bits of a parameter are its hexadecimal digits, the most significant
\* first: a parameter of 32 bits has 8 of them, one of 64 bits has 16.
Widths == {32, 64}

Ones(w) == [i \in 1..(w \div 4) |-> 15]

Zeros(w) == [i \in 1..(w \div 4) |-> 0]

\* the parameters of the TRICE32 and TRICE64 calls: -1, 0, 1, -2, the smallest
\* and the largest signed number, 0x55, 200
Params(w) ==
    { Ones(w),
      Zeros(w),
      [Zeros(w) EXCEPT ![w \div 4] = 1],
      [Ones(w) EXCEPT ![w \div 4] = 14],
      [Zeros(w) EXCEPT ![1] = 8],
      [Ones(w) EXCEPT ![1] = 7],
      [Zeros(w) EXCEPT ![w \div 4] = 5, ![w \div 4 - 1] = 5],
      [Zeros(w) EXCEPT ![w \div 4] = 8, ![w \div 4 - 1] = 12] }

Verbs == {"u", "d", "x", "X", "o", "O", "b"}

LowerDigits == <<"0", "1", "2", "3", "4", "5", "6", "7", "8", "9", "a", "b", "c", "d", "e", "f">>

UpperDigits == <<"0", "1", "2", "3", "4", "5", "6", "7", "8", "9", "A", "B", "C", "D", "E", "F">>

\* a number without its leading zeros; the number zero keeps one digit
RECURSIVE Strip(_)
Strip(ds) == IF Len(ds) > 1 /\ Head(ds) = 0 THEN Strip(Tail(ds)) ELSE ds

Text(ds, digits) == [i \in DOMAIN Strip(ds) |-> digits[Strip(ds)[i] + 1]]

\* the division of the hexadecimal number ds by ten, digit by digit: the
\* quotient and the remainder r carried from the digits before
RECURSIVE DivTen(_, _)
DivTen(ds, r) ==
    IF ds = <<>> THEN [q |-> <<>>, r |-> r]
    ELSE LET cur == 16 * r + Head(ds)
             more == DivTen(Tail(ds), cur % 10)
         IN  [q |-> <<cur \div 10>> \o more.q, r |-> more.r]

\* the decimal digits of the hexadecimal number ds
RECURSIVE Decimal(_)
Decimal(ds) ==
    IF \A i \in DOMAIN ds : ds[i] = 0 THEN <<>>
    ELSE Decimal(DivTen(ds, 0).q) \o <<DivTen(ds, 0).r>>

\* ds + 1 in the width of ds
RECURSIVE Increment(_)
Increment(ds) ==
    IF ds = <<>> THEN <<>>
    ELSE IF ds[Len(ds)] < 15 THEN [ds EXCEPT ![Len(ds)] = ds[Len(ds)] + 1]
    ELSE Increment(SubSeq(ds, 1, Len(ds) - 1)) \o <<0>>

\* the two's complement of ds in the width of ds
Negated(ds) == Increment([i \in DOMAIN ds |-> 15 - ds[i]])

Negative(ds) == ds[1] >= 8

\* the binary digits of ds
RECURSIVE Binary(_)
Binary(ds) ==
    IF ds = <<>> THEN <<>>
    ELSE <<Head(ds) \div 8, (Head(ds) \div 4) % 2, (Head(ds) \div 2) % 2, Head(ds) % 2>>
         \o Binary(Tail(ds))

\* the octal digits of the binary number bs
RECURSIVE Octal(_)
Octal(bs) ==
    IF bs = <<>> THEN <<>>
    ELSE IF Len(bs) % 3 # 0 THEN Octal(<<0>> \o bs)
    ELSE <<4 * bs[1] + 2 * bs[2] + bs[3]>> \o Octal(SubSeq(bs, 4, Len(bs)))

\* the text of the parameter ds under %u and under %d
RenderUnsigned(ds) == Text(IF Decimal(ds) = <<>> THEN <<0>> ELSE Decimal(ds), LowerDigits)

RenderSigned(ds) ==
    IF Negative(ds) THEN <<"-">> \o RenderUnsigned(Negated(ds)) ELSE RenderUnsigned(ds)

\* mutant: %u is rendered as %d is
RenderAllSigned(v, ds) ==
    CASE v = "u" -> RenderSigned(ds)
      [] v = "d" -> RenderSigned(ds)
      [] v = "x" -> Text(ds, LowerDigits)
      [] v = "X" -> Text(ds, UpperDigits)
      [] v = "b" -> Text(Binary(ds), LowerDigits)
      [] v = "o" -> Text(Octal(Binary(ds)), LowerDigits)
      [] v = "O" -> <<"0", "o">> \o Text(Octal(Binary(ds)), LowerDigits)

\* the text of the parameter ds under the conversion v
Render(v, ds) ==
    CASE v = "u" -> RenderUnsigned(ds)
      [] v = "d" -> RenderSigned(ds)
      [] v = "x" -> Text(ds, LowerDigits)
      [] v = "X" -> Text(ds, UpperDigits)
      [] v = "b" -> Text(Binary(ds), LowerDigits)
      [] v = "o" -> Text(Octal(Binary(ds)), LowerDigits)
      [] v = "O" -> <<"0", "o">> \o Text(Octal(Binary(ds)), LowerDigits)

\* TRICE32( id(n), "msg:%v (%%v)\n", p ), TRICE64( ... ) as received
TriceCheck ==
    /\ width \in Widths
    /\ param \in Params(width)
    /\ verb = ""
    /\ out = <<>>

\* the renderer substitutes the conversion of the format string
Substitute(v) ==
    /\ verb = ""
    /\ verb' = v
    /\ out' = Render(v, param)
    /\ UNCHANGED <<registry, cmdline, display, composer, receiver, framer, width, param>>

InitFR == registryUnused /\ cmdlineUnused /\ displayUnused /\ composerUnused /\ receiverUnused /\ framerUnused /\ TriceCheck

NextFR == \E v \in Verbs : Substitute(v)

SpecFR == InitFR /\ [][NextFR]_vars

\* =========================================================== stream framer
MaxFrames == 2    \* frames and stray bytes the wire is made from

\* the start byte of a frame
SyncByte == 235

\* FormatTable of the decoder: per registered ID the width in bytes and the
\* count of the parameters of its type
Registered == [id \in {1, 2, 258} |->
                 CASE id = 1 -> [Type |-> "TRICE0", width |-> 1, count |-> 0]
                   [] id = 2 -> [Type |-> "TRICE8_2", width |-> 1, count |-> 2]
                   [] id = 258 -> [Type |-> "TRICE16_1", width |-> 2, count |-> 1]]

Expected(id) == Registered[id].width * Registered[id].count

\* parameter bytes, each parameter with its most significant byte first
Payloads == {<<>>, <<1, 2>>, <<SyncByte, 1>>}

\* the parameter bytes of the length the type of the ID requires
ParamsOf(id) == {ps \in Payloads : Len(ps) = Expected(id)}

TimestampBits == {0, 16}

TimestampBytes(bits) == SubSeq(<<7, 8, 9, 10>>, 1, bits \div 8)

RECURSIVE Reverse(_)
Reverse(s) == IF s = <<>> THEN <<>> ELSE Reverse(Tail(s)) \o <<Head(s)>>

\* a field of several bytes in the transfer byte order
Ordered(field, order) == IF order = "big" THEN field ELSE Reverse(field)

\* the fields of w bytes of a payload, each in the transfer byte order
RECURSIVE Swapped(_, _, _)
Swapped(bytes, w, order) ==
    IF Len(bytes) < w \/ w = 0 THEN bytes
    ELSE Ordered(SubSeq(bytes, 1, w), order) \o Swapped(SubSeq(bytes, w + 1, Len(bytes)), w, order)

\* the wire record of (id, params): start byte, the ID in two bytes, the
\* timestamp width, the payload length, the timestamp, the payload
Header(id, bits, n, order) ==
    <<SyncByte>> \o Ordered(<<id \div 256, id % 256>>, order) \o <<bits, n>>

Encode(id, bits, params, order) ==
    Header(id, bits, Len(params), order)
    \o TimestampBytes(bits)
    \o Swapped(params, Registered[id].width, order)

\* what the device can put on the wire: frames of registered IDs with a
\* payload of the required or of another length, a frame of an ID that is
\* not registered, a stray byte
Sent ==
    {[kind |-> "record", id |-> id, bits |-> bits, params |-> ps] :
        id \in DOMAIN Registered, bits \in TimestampBits, ps \in Payloads}
    \cup {[kind |-> "unknown", id |-> 3, bits |-> 0, params |-> <<>>],
          [kind |-> "stray", id |-> 0, bits |-> 0, params |-> <<>>]}

WellFormed(e) == e.kind = "record" /\ e.params \in ParamsOf(e.id)

Bytes(e, order) ==
    CASE e.kind = "record" -> Encode(e.id, e.bits, e.params, order)
      [] e.kind = "unknown" -> Header(e.id, e.bits, 0, order)
      [] e.kind = "stray" -> <<1>>

RECURSIVE Wire(_, _)
Wire(es, order) == IF es = <<>> THEN <<>> ELSE Bytes(Head(es), order) \o Wire(Tail(es), order)

\* ------------------------------------------------------- the frame so far
\* frame holds the bytes behind the start byte: ID, timestamp width, length,
\* timestamp, payload
HeaderBytes == 4

HeaderComplete(f) == Len(f) >= HeaderBytes

BadHeader(f) == HeaderComplete(f) /\ f[3] \notin {0, 16, 32}

FrameLength(f) == HeaderBytes + f[3] \div 8 + f[4]

FrameID(f, order) ==
    LET id == Ordered(SubSeq(f, 1, 2), order)
    IN  256 * id[1] + id[2]

Payload(f) == SubSeq(f, HeaderBytes + f[3] \div 8 + 1, Len(f))

\* the bytes received differ from the bytes the registered type requires
Mismatch(f, order) ==
    \/ BadHeader(f)
    \/ FrameID(f, order) \notin DOMAIN Registered
    \/ Len(Payload(f)) # Expected(FrameID(f, order))

TraceRecordAsReceived(f, order) ==
    [id |-> FrameID(f, order),
     timestampBits |-> f[3],
     rawParamBytes |-> Payload(f)]

TraceRecord(f, order) ==
    [id |-> FrameID(f, order),
     timestampBits |-> f[3],
     rawParamBytes |-> Swapped(Payload(f), Registered[FrameID(f, order)].width, order)]

\* ------------------------------------------------------------ transitions
\* SYNCING: a byte that is no start byte is passed over
Skip ==
    /\ frState = "SYNCING"
    /\ wire # <<>>
    /\ Head(wire) # SyncByte
    /\ wire' = Tail(wire)
    /\ UNCHANGED <<registry, cmdline, display, composer, receiver, renderer, endianness, frState, frame,
                   records, reported, encoded>>

\* SYNCING -> IN_FRAME: the start byte is found
Sync ==
    /\ frState = "SYNCING"
    /\ wire # <<>>
    /\ Head(wire) = SyncByte
    /\ wire' = Tail(wire)
    /\ frame' = <<>>
    /\ frState' = "IN_FRAME"
    /\ UNCHANGED <<registry, cmdline, display, composer, receiver, renderer, endianness, records, reported, encoded>>

\* IN_FRAME: the next byte of the header, the timestamp or the payload
Accumulate ==
    /\ frState = "IN_FRAME"
    /\ ~BadHeader(frame)
    /\ IF HeaderComplete(frame) THEN Len(frame) < FrameLength(frame) ELSE TRUE
    /\ wire # <<>>
    /\ wire' = Tail(wire)
    /\ frame' = Append(frame, Head(wire))
    /\ UNCHANGED <<registry, cmdline, display, composer, receiver, renderer, endianness, frState, records,
                   reported, encoded>>

\* IN_FRAME -> EMIT: the declared number of bytes is there, or the header is bad
Complete ==
    /\ frState = "IN_FRAME"
    /\ HeaderComplete(frame)
    /\ IF BadHeader(frame) THEN TRUE ELSE Len(frame) = FrameLength(frame)
    /\ frState' = "EMIT"
    /\ UNCHANGED <<registry, cmdline, display, composer, receiver, renderer, endianness, wire, frame,
                   records, reported, encoded>>

EmitUnchecked ==
    /\ frState = "EMIT"
    /\ IF BadHeader(frame) \/ FrameID(frame, endianness) \notin DOMAIN Registered
       THEN /\ reported' = reported + 1
            /\ UNCHANGED records
       ELSE /\ records' = Append(records, TraceRecord(frame, endianness))
            /\ UNCHANGED reported
    /\ frame' = <<>>
    /\ frState' = "SYNCING"
    /\ UNCHANGED <<registry, cmdline, display, composer, receiver, renderer, endianness, wire, encoded>>

\* EMIT -> SYNCING: the TraceRecord is yielded, or the framing error is reported
Emit ==
    /\ frState = "EMIT"
    /\ IF Mismatch(frame, endianness)
       THEN /\ reported' = reported + 1
            /\ UNCHANGED records
       ELSE /\ records' = Append(records, TraceRecord(frame, endianness))
            /\ UNCHANGED reported
    /\ frame' = <<>>
    /\ frState' = "SYNCING"
    /\ UNCHANGED <<registry, cmdline, display, composer, receiver, renderer, endianness, wire, encoded>>

RECURSIVE SeqsOf(_, _)
SeqsOf(S, n) ==
    IF n = 0 THEN {<<>>}
    ELSE SeqsOf(S, n - 1) \cup {Append(s, x) : s \in {u \in SeqsOf(S, n - 1) : Len(u) = n - 1}, x \in S}

StreamFramer ==
    /\ endianness \in {"big", "little"}
    /\ encoded \in SeqsOf(Sent, MaxFrames)
    /\ wire = Wire(encoded, endianness)
    /\ frState = "SYNCING"
    /\ frame = <<>>
    /\ records = <<>>
    /\ reported = 0

InitSF == registryUnused /\ cmdlineUnused /\ displayUnused /\ composerUnused /\ receiverUnused /\ rendererUnused /\ StreamFramer

NextSF ==
    \/ Skip
    \/ Sync
    \/ Accumulate
    \/ Complete
    \/ Emit

SpecSF == InitSF /\ [][NextSF]_vars

\* ========================================================== remote display
\* RemoteDisplay (package emitter) hands every line to a display server over
\* rpc.  The result of a call is stored in p.Err; the process ends when a
\* stored error is found.
MaxLines == 4     \* writeLine calls on one RemoteDisplay

\* the lines handed to writeLine: slices of strings
DisplayLines == {<<>>, <<"a">>, <<"b", "c">>}

\* what rpc.Dial and rpc.Client.Call return
DialResults == {"nil", "dial error"}
CallResults == {"nil", "call error"}

\* the struct literal of NewRemoteDisplay, before Connect
RemoteDisplay ==
    /\ Err = "nil"
    /\ PtrRPC = "nil"
    /\ written = <<>>
    /\ served = <<>>
    /\ rdPc = "running"

\* Connect dials unless a client is there; a dial error ends the process
Connect(dial) ==
    /\ rdPc = "running"
    /\ PtrRPC = "nil"
    /\ PtrRPC' = IF dial = "nil" THEN "client" ELSE "nil"
    /\ Err' = dial
    /\ rdPc' = IF dial = "nil" THEN "running" ELSE "exited"
    /\ UNCHANGED <<registry, cmdline, composer, receiver, renderer, framer, written, served>>

\* ErrorFatal: log.Fatal when an error is stored
ErrorFatal == Err # "nil"

\* mutant: the stored error is not looked at
remoteWriteLineUnchecked(ln, result) ==
    /\ rdPc = "running"
    /\ PtrRPC # "nil"
    /\ Len(written) < MaxLines
    /\ written' = Append(written, ln)
    /\ served' = Append(served, [line |-> ln, err |-> result])
    /\ Err' = result
    /\ UNCHANGED <<registry, cmdline, composer, receiver, renderer, framer, PtrRPC, rdPc>>

\* RemoteDisplay.writeLine: ErrorFatal, then the call Server.WriteLine, whose result is stored
remoteWriteLine(ln, result) ==
    /\ rdPc = "running"
    /\ PtrRPC # "nil"
    /\ Len(written) < MaxLines
    /\ written' = Append(written, ln)
    /\ IF ErrorFatal
       THEN /\ rdPc' = "exited"
            /\ UNCHANGED <<Err, served>>
       ELSE /\ served' = Append(served, [line |-> ln, err |-> result])
            /\ Err' = result
            /\ UNCHANGED rdPc
    /\ UNCHANGED <<registry, cmdline, composer, receiver, renderer, framer, PtrRPC>>

InitRD ==
    /\ registryUnused /\ cmdlineUnused
    /\ composerUnused /\ receiverUnused /\ rendererUnused /\ framerUnused
    /\ RemoteDisplay

NextRD ==
    \/ \E dial \in DialResults : Connect(dial)
    \/ \E ln \in DisplayLines, result \in CallResults : remoteWriteLine(ln, result)

SpecRD == InitRD /\ [][NextRD]_vars

\* ============================================================ command line
\* HandleArgs (cmd/trice) picks the subcommand from the argument list, parses
\* its flags with the FlagSet of the subcommand and runs it.
MaxArgs == 3      \* elements of the argument list handed to HandleArgs

\* the subcommands of the switch, and a word that is none
SubCmds == {"h", "help", "version", "u", "update", "check", "log", "zeroSourceTreeIds"}
NoSubCmd == "foo"

\* what can follow the subcommand: boolean flags, an undefined flag, a non-flag
SubArgWords == {"-v", "-dry-run", "-bad", "x"}

ArgLists ==
    {<<>>, <<"trice">>}
    \cup {<<"trice", s>> \o f : s \in SubCmds \cup {NoSubCmd}, f \in SeqsUpTo(SubArgWords, MaxArgs - 2)}

\* os.Args when HandleArgs is not handed os.Args itself
TestArgs == {<<"trice.test">>, <<"trice.test", "-test.v">>}

\* the FlagSet a subcommand is parsed with
FlagSetOf(subCmd) ==
    CASE subCmd = "h" -> "help"
      [] subCmd = "u" -> "update"
      [] OTHER -> subCmd

\* the boolean flags of a FlagSet among SubArgWords
BoolFlags(set) ==
    CASE set = "update" -> {"-v", "-dry-run"}
      [] set = "zeroSourceTreeIds" -> {"-dry-run"}
      [] OTHER -> {}

ExitOnError(set) == set \in {"update", "log", "check"}

\* FlagSet.Parse: flags up to the first non-flag; an undefined flag is an
\* error, which ends the process for a FlagSet made with flag.ExitOnError
RECURSIVE Parse(_, _)
Parse(set, subArgs) ==
    IF subArgs = <<>> \/ Head(subArgs) = "x" THEN "nil"
    ELSE IF Head(subArgs) \in BoolFlags(set) THEN Parse(set, Tail(subArgs))
    ELSE IF ExitOnError(set) THEN "exit" ELSE "error"

NoArgs == "no args, try: 'trice help'"

HandleArgs ==
    /\ returned = "pending"
    /\ IF Len(osArgs) < 2
       THEN /\ returned' = NoArgs
            /\ UNCHANGED ran
       ELSE IF Len(args) < 2
       THEN /\ returned' = "panic: index out of range"
            /\ UNCHANGED ran
       ELSE LET subCmd == args[2]
                subArgs == SubSeq(args, 3, Len(args))
                e == Parse(FlagSetOf(subCmd), subArgs)
            IN  IF subCmd \notin SubCmds
                THEN /\ returned' = "nil"
                     /\ UNCHANGED ran
                ELSE IF e = "exit"
                THEN /\ returned' = "os.Exit(2)"
                     /\ UNCHANGED ran
                ELSE IF e = "error"
                THEN /\ returned' = "failed to parse"
                     /\ UNCHANGED ran
                ELSE /\ ran' = FlagSetOf(subCmd)
                     /\ returned' = "result of the subcommand"
    /\ UNCHANGED <<registry, decodePath, osArgs, args>>

InitHA ==
    /\ registryUnused /\ decodePathUnused
    /\ args \in ArgLists
    /\ osArgs \in ({args} \ {<<>>}) \cup TestArgs
    /\ ran = "none"
    /\ returned = "pending"

NextHA == HandleArgs

SpecHA == InitHA /\ [][NextHA]_vars

\* ------------------------------------------------------------------ claims
\* the source tree and the ID lookup this invocation started from
src0 == start.src
til0 == NewLut(start.til)

\* the call sites of src0 that embed the ID k
sitesOf(k) == {i \in DOMAIN src0 : src0[i].id = k}

firstOf(S) == CHOOSE i \in S : \A j \in S : i <= j

\* C1: a non-zero ID k that is not in the loaded table and stands at two or
\* more call sites with different (Type, Strg) pairs has, after the pass,
\* exactly the pair of the first of these call sites in the ID lookup.
C1_FirstSeenPairKept ==
    pc = "done" =>
        \A k \in SiteIDs \ {0} :
            (/\ InRange(k)
             /\ k \notin DOMAIN til0
             /\ \E i, j \in sitesOf(k) : src0[i].fmt # src0[j].fmt)
            => (k \in DOMAIN idToTrice /\ idToTrice[k] = src0[firstOf(sitesOf(k))].fmt)
\* the call sites of src0 without ID that carry the TriceFmt f
unassigned(f) == {i \in DOMAIN src0 : src0[i].id = 0 /\ src0[i].fmt = f}

\* the walk is through call site i
Walked(i) == i \in DOMAIN resolved

AllUnassigned == \A i \in DOMAIN src0 : src0[i].id = 0

\* site i got the ID Min+i-1, carries it in the source, and the ID lookup
\* holds one entry per call site
UpwardIDs ==
    /\ \A i \in DOMAIN src0 :
          /\ resolved[i] = Min + i - 1
          /\ srcTree[i].id = Min + i - 1
          /\ Min + i - 1 \in DOMAIN idToTrice
          /\ idToTrice[Min + i - 1] = src0[i].fmt
    /\ Cardinality(DOMAIN idToTrice) = Len(src0)

\* C3 as stated: from an empty FormatTable a pass over n call sites that all
\* embed ID 0 assigns Min, Min+1, ... in call-site order, rewrites each site and
\* adds one entry per site.
C3_UpwardIDsAlways ==
    (pc = "done" /\ start.til = <<>> /\ AllUnassigned) => UpwardIDs

\* C3 amended: the same, with shared IDs switched off, no dry run and no
\* location loaded from li.json.
C3_UpwardIDsNonShared ==
    (/\ pc = "done"
     /\ start.til = <<>>
     /\ AllUnassigned
     /\ ~SharedIDs
     /\ ~DryRun
     /\ DOMAIN idToLocRef = {}) => UpwardIDs

C3_Witness ==
    /\ pc = "done"
    /\ start.til = <<>>
    /\ AllUnassigned
    /\ ~SharedIDs
    /\ ~DryRun
    /\ DOMAIN idToLocRef = {}
    /\ Len(src0) = 3
    /\ src0[2].fmt = src0[3].fmt
    /\ resolved = <<Min, Min + 1, Min + 2>>

\* C4: every ID taken from IDSpace is, when taken, neither a key of the ID
\* lookup, nor a key of the loaded li.json, nor taken before in this pass.
C4_AllocatedIDsFresh ==
    \A i \in DOMAIN allocs : allocs[i].fresh

\* C5: 0 is no element of IDSpace and is never taken for a call site.
C5_ZeroNeverAllocated ==
    /\ 0 \notin Range(IDSpace)
    /\ \A i \in DOMAIN allocs : allocs[i].id # 0

\* C6: after a pass every key of the ID lookup is in [Min, Max] and not 0.
C6_RangeInvariant ==
    pc = "done" => \A k \in DOMAIN idToTrice : InRange(k) /\ k # 0

\* C7: the ID lookup is only extended: what was loaded is still there with the
\* same TriceFmt, and every other entry was put in exactly once.
C7_OnlyExtended ==
    /\ pc # "start" =>
          \A k \in DOMAIN til0 : k \in DOMAIN idToTrice /\ idToTrice[k] = til0[k]
    /\ \A k \in DOMAIN added : added[k] = 1

\* C8: a second invocation, without dry run, on the tree and the til.json a
\* first invocation left adds no ID and leaves til.json as it is.
C8_SecondRunAddsNothing ==
    (pc = "done" /\ run > 1 /\ ~DryRun) => (idsAdded = 0 /\ tilFile = start.til)

\* C9: two invocations on the same til.json, li.json and source tree resolve
\* every call site to the same ID.
C9_SameResolutionEveryRun ==
    (/\ pc = "done"
     /\ prev.valid
     /\ prev.unchanged) => resolved = prev.resolved

\* the single call site TRICE8( Id(0), "value=%d", -2 ) of the end-to-end scenario
TheSite == [id |-> 0, fmt |-> TriceFmt("TRICE8", "value=%d")]

\* one entry k, in range, of the site's type and format string, in the ID
\* lookup and in til.json, and the call site carries k
OneEntry ==
    \E k \in DOMAIN idToTrice :
        /\ DOMAIN idToTrice = {k}
        /\ InRange(k)
        /\ idToTrice[k].Type = "TRICE8"
        /\ idToTrice[k].Strg = "value=%d"
        /\ tilFile = <<[id |-> k, fmt |-> TheSite.fmt]>>
        /\ srcTree = <<[id |-> k, fmt |-> TheSite.fmt]>>

\* C10 as stated: empty til.json, the single call site: after one pass there is
\* exactly one entry, in range, and the call site carries its ID.
C10_EndToEndAlways ==
    (pc = "done" /\ start.til = <<>> /\ src0 = <<TheSite>>) => OneEntry

\* C10 amended: the same for a pass that is no dry run.
C10_EndToEnd ==
    (pc = "done" /\ start.til = <<>> /\ src0 = <<TheSite>> /\ ~DryRun) => OneEntry

C10_Witness ==
    pc = "done" /\ run = 1 /\ src0 = <<TheSite>> /\ ~DryRun /\ OneEntry /\ Min # 0

\* ============================================== claims on the line composer
\* the strings of a line, one after the other
RECURSIVE Flat(_)
Flat(l) == IF l = <<>> THEN <<>> ELSE Head(l) \o Flat(Tail(l))

\* a line as handed to the line writer: timestamp, prefix, text..., suffix
Stamp(l) == l[1]

Body(l) == Flat(SubSeq(l, 3, Len(l) - 1))

ValueThen200 ==
    /\ Len(calls) = 2
    /\ calls[1].s = <<"msg:value=">>
    /\ calls[2].s = <<"200", LF>>

\* C11: on a new composer, WriteString("msg:value=") and then
\* WriteString("200\n") hand the line writer exactly one line, its body is
\* "msg:value=200" and its timestamp is the one taken during the first call.
C11_SplitLineOnce ==
    ValueThen200 =>
        /\ Len(lw) = 1
        /\ Body(lw[1].was) = <<"msg:value=", "200">>
        /\ Stamp(lw[1].was) = calls[1].ts

C11_Witness ==
    /\ ValueThen200
    /\ timestampFormat = "LOCmicro"
    /\ Len(lw) = 1
    /\ Stamp(lw[1].was) = <<Stamps[1], "  ">>
    /\ calls[2].ts = <<Stamps[2], "  ">>

ThreeLinesAtOnce ==
    /\ Len(calls) = 1
    /\ calls[1].s = <<"a", LF, "b", LF, "c", LF>>

\* C12: one WriteString("a\nb\nc\n") hands the line writer three lines with
\* the bodies a, b, c in this order, and the line in progress is empty when
\* the call returns.
C12_ThreeLines ==
    ThreeLinesAtOnce =>
        /\ Len(lw) = 3
        /\ Body(lw[1].was) = <<"a">>
        /\ Body(lw[2].was) = <<"b">>
        /\ Body(lw[3].was) = <<"c">>
        /\ View(heap, line) = <<>>

C12_Witness ==
    /\ ThreeLinesAtOnce
    /\ Len(lw) = 3
    /\ prefix = <<"[", " ">>
    /\ line.len = 0

\* the line breaks of the fragment s once every spelling is normalized
Breaks(s) ==
    LET n == Normalize(s)
    IN  Cardinality({i \in DOMAIN n : n[i] = LF})

\* the text of the fragment s behind its last line break
Rest(s) ==
    LET n == Normalize(s)
        k == IF Breaks(s) = 0 THEN 0
             ELSE CHOOSE i \in DOMAIN n : n[i] = LF /\ \A j \in (i + 1)..Len(n) : n[j] # LF
    IN  SubSeq(n, k + 1, Len(n))

\* C13: in every state of the composer, a non-empty fragment with k line
\* breaks after normalization has exactly k lines handed to the line writer,
\* and the text behind its last line break, if there is any, is kept in the
\* line in progress.
C13_BreaksCountLines ==
    \A i \in DOMAIN calls :
        calls[i].n > 0 =>
            /\ calls[i].lines = Breaks(calls[i].s)
            /\ Rest(calls[i].s) # <<>> =>
                  /\ calls[i].kept # <<>>
                  /\ calls[i].kept[Len(calls[i].kept)] = Rest(calls[i].s)

C13_Witness ==
    /\ Len(calls) = 2
    /\ calls[1].s = <<"a">>
    /\ calls[2].s = <<"a", CR, LF, "b", BS, "n">>
    /\ calls[2].lines = 2
    /\ calls[2].kept = <<>>
    /\ calls[1].kept[3] = <<"a">>

\* the line breaks of the calls 1..j
RECURSIVE BreaksUpTo(_)
BreaksUpTo(j) == IF j = 0 THEN 0 ELSE BreaksUpTo(j - 1) + Breaks(calls[j].s)

\* per call: the line breaks up to it, and whether text follows its last one
Layout == [upTo |-> [j \in 0..Len(calls) |-> BreaksUpTo(j)],
           open |-> [j \in DOMAIN calls |-> Rest(calls[j].s) # <<>>]]

\* the call that holds the i-th line break
EndCall(lay, i) == CHOOSE j \in DOMAIN calls : lay.upTo[j - 1] < i /\ i <= lay.upTo[j]

\* the call that holds the first character behind the (i-1)-th line break
StartCall(lay, i) ==
    LET e == IF i = 1 THEN 0 ELSE EndCall(lay, i - 1)
    IN  IF e > 0 /\ (i - 1 < lay.upTo[e] \/ lay.open[e]) THEN e
        ELSE CHOOSE j \in DOMAIN calls :
                 /\ j > e
                 /\ calls[j].n > 0
                 /\ \A x \in (e + 1)..(j - 1) : calls[x].n = 0

\* C14: a line keeps the timestamp taken by the call that started it, also
\* when a later call terminates it.
C14_StampOfStartingCall ==
    LET lay == Layout
    IN  \A i \in DOMAIN lw :
            /\ lw[i].call = EndCall(lay, i)
            /\ lw[i].started = StartCall(lay, i)
            /\ Stamp(lw[i].was) = calls[StartCall(lay, i)].ts

C14_Witness ==
    /\ timestampFormat = "LOCmicro"
    /\ Len(calls) = 3
    /\ Len(lw) = 1
    /\ StartCall(Layout, 1) = 1
    /\ EndCall(Layout, 1) = 3
    /\ Stamp(lw[1].was) = <<Stamps[1], "  ">>

\* the fragments of the calls 1..j, normalized, one after the other
RECURSIVE Stream(_)
Stream(j) == IF j = 0 THEN <<>> ELSE Stream(j - 1) \o Normalize(calls[j].s)

\* C15: the line writer is handed the lines in the order of the line breaks
\* that terminate them.
C15_LinesInBreakOrder ==
    LET ls == Split(Stream(Len(calls)), LF)
    IN  /\ Len(lw) = Len(ls) - 1
        /\ \A i \in DOMAIN lw : Body(lw[i].was) = ls[i]
        /\ \A i \in DOMAIN lw : \A j \in DOMAIN lw : i < j => lw[i].call <= lw[j].call

C15_Witness ==
    /\ Len(calls) = 2
    /\ Len(lw) = 3
    /\ Body(lw[1].was) = <<"a">>
    /\ Body(lw[2].was) = <<"b", "a">>
    /\ Body(lw[3].was) = <<"b">>
    /\ lw[1].call = 1
    /\ lw[3].call = 2

\* C16: the strings the line writer was handed for a line are not changed by
\* later WriteString calls, also for a line writer that keeps the slice it was
\* handed: it finds in the slice what was there when the call that handed it
\* over returned.
C16_HandedLinesStay ==
    \A i \in DOMAIN lw : Seen(heap, lw)[i] = calls[lw[i].call].seen[i]

\* ============================================== claims on the receive loop
\* the trice records emit.Trice was called with, and the bytes of the buffer
EmittedT == [i \in DOMAIN SelectSeq(emitted, LAMBDA e : e.t # <<>>) |->
               SelectSeq(emitted, LAMBDA e : e.t # <<>>)[i].t]

EmittedB == Flat([i \in DOMAIN emitted |-> emitted[i].b])

\* s holds the elements of r in their order, r possibly more in between
RECURSIVE IsSubSeq(_, _)
IsSubSeq(s, r) ==
    IF s = <<>> THEN TRUE
    ELSE IF r = <<>> THEN FALSE
    ELSE IF Head(s) = Head(r) THEN IsSubSeq(Tail(s), Tail(r))
    ELSE IsSubSeq(s, Tail(r))

\* C17: emit.Trice is called with the trice records in the order the trice
\* channel delivered them, none left out, and the buffer bytes it is called
\* with are in the order the buffer channel delivered them.
C17_OrderKept ==
    /\ Len(EmittedT) <= Len(sentT)
    /\ EmittedT = SubSeq(sentT, 1, Len(EmittedT))
    /\ IsSubSeq(EmittedB, Flat(sentB))

C17_Witness ==
    /\ EmittedT = <<<<1>>, <<2>>>>
    /\ EmittedB = <<1, 2>>
    /\ Len(emitted) = 2

\* the bytes that are on their way to an emit.Trice call or were passed to one
InChannel == {Flat(bufferChannel)[i] : i \in DOMAIN Flat(bufferChannel)}

Emitted == {EmittedB[i] : i \in DOMAIN EmittedB}

\* C18: no data is dropped: every chunk delivered on the buffer channel is
\* passed to an emit.Trice call; at any time it waits in the channel, is held
\* in the b of the iteration or was passed.
C18_NoChunkDropped ==
    \A i \in DOMAIN Flat(sentB) :
        Flat(sentB)[i] \in InChannel \cup {b[j] : j \in DOMAIN b} \cup Emitted

\* C19: once the serial input has ended and the receiver has closed its
\* channels, doSerialReceive returns.
C19_Returns ==
    (input = "closed" /\ channelsClosed) ~> (rxPc = "returned")

\* ========================================== claims on the format renderer
\* 2^32 - 1 and 2^64 - 1 in decimal
AllOnes32 == <<"4", "2", "9", "4", "9", "6", "7", "2", "9", "5">>

AllOnes64 ==
    <<"1", "8", "4", "4", "6", "7", "4", "4", "0", "7", "3", "7", "0", "9", "5", "5", "1", "6", "1", "5">>

\* the hexadecimal digit a character stands for
DigitOf(c) == CHOOSE d \in 0..15 : LowerDigits[d + 1] = c \/ UpperDigits[d + 1] = c

\* 10 * ds + c in the width of ds
RECURSIVE TimesTenPlus(_, _)
TimesTenPlus(ds, c) ==
    IF ds = <<>> THEN <<>>
    ELSE LET cur == 10 * ds[Len(ds)] + c
         IN  TimesTenPlus(SubSeq(ds, 1, Len(ds) - 1), cur \div 16) \o <<cur % 16>>

\* the bits that the decimal number txt has in the width of acc, modulo 2^w
RECURSIVE DecimalBits(_, _)
DecimalBits(txt, acc) ==
    IF txt = <<>> THEN acc
    ELSE DecimalBits(Tail(txt), TimesTenPlus(acc, DigitOf(Head(txt))))

\* the bits that the hexadecimal number txt has in w bits
HexBits(txt, w) ==
    [i \in 1..(w \div 4) |->
        IF i <= w \div 4 - Len(txt) THEN 0 ELSE DigitOf(txt[i - (w \div 4 - Len(txt))])]

\* C20: a parameter of 32 or 64 bits that are all ones is rendered as 2^w - 1
\* in decimal under %u, as -1 under %d, as w/4 digits f under %x and as w/4
\* digits F under %X; under the unsigned conversions every parameter is
\* rendered without a sign as the number its bits are modulo 2^w.
C20_AllOnesRendered ==
    /\ (verb # "" /\ param = Ones(width)) =>
          /\ verb = "u" => out = IF width = 32 THEN AllOnes32 ELSE AllOnes64
          /\ verb = "d" => out = <<"-", "1">>
          /\ verb = "x" => out = [i \in 1..(width \div 4) |-> "f"]
          /\ verb = "X" => out = [i \in 1..(width \div 4) |-> "F"]
    /\ verb \in {"u", "x", "X", "o", "O", "b"} =>
          /\ out # <<>>
          /\ \A i \in DOMAIN out : out[i] # "-"
    /\ verb = "u" => DecimalBits(out, Zeros(width)) = param
    /\ verb \in {"x", "X"} => HexBits(out, width) = param

C20_Witness ==
    /\ width = 64
    /\ param = Ones(64)
    /\ verb = "u"
    /\ out = AllOnes64

\* ================================= claims on dry run and on the written files
\* C21: with dry-run set, a pass applies no changes: til.json, li.json and the
\* source tree are after the pass what they were before it.
C21_DryRunWritesNothing ==
    (pc = "done" /\ DryRun) =>
        /\ tilFile = start.til
        /\ liFile = start.li
        /\ srcTree = start.src

\* the locations the walk has recorded for the call sites 1..n of the pass:
\* per ID that a call site carries, the last call site that carries it
RECURSIVE RecordedUpTo(_)
RecordedUpTo(n) ==
    IF n = 0 THEN EmptyMap
    ELSE IF start.src[n].id # 0 /\ InRange(start.src[n].id)
         THEN Put(RecordedUpTo(n - 1), start.src[n].id, n)
         ELSE RecordedUpTo(n - 1)

\* C22: the location table of a pass starts empty in preProcessing and holds
\* exactly the call sites recorded during the pass, none of the entries of
\* the li.json read; the reference read from li.json is not modified during
\* the pass; li.json as written is the location table of the pass.
C22_LocationTableRebuilt ==
    /\ pc \in {"walk", "done", "fatal"} =>
          /\ idToLocNew = RecordedUpTo(pos - 1)
          /\ idToLocRef = NewLutLI(start.li, LIFnJSON)
    /\ (pc = "done" /\ LIFnJSON \notin {"off", "none"}) => liFile = RecordedUpTo(Len(srcTree))

C22_Witness ==
    /\ pc = "done"
    /\ LIFnJSON = "li.json"
    /\ start.li = [x \in {2} |-> 0]
    /\ idToLocRef = [x \in {2} |-> 0]
    /\ liFile = [x \in {1} |-> 1]

\* C23: at the end of a pass til.json is written if and only if the pass
\* added at least one entry and dry-run is off: it then is the ID lookup
\* sorted by ID; otherwise it is the file the pass found.
C23_TilWrittenIffAdded ==
    pc = "done" =>
        IF added # EmptyMap /\ ~DryRun
        THEN tilFile = toFile(idToTrice) /\ tilFile # start.til
        ELSE tilFile = start.til

C23_Witness ==
    /\ pc = "done"
    /\ ~DryRun
    /\ start.til # <<>>
    /\ added # EmptyMap
    /\ Len(tilFile) = Len(start.til) + 1

\* the keys of the til.json and of the li.json that preProcessing has loaded
LoadedKeys ==
    {start.til[i].id : i \in DOMAIN start.til} \cup DOMAIN NewLutLI(start.li, LIFnJSON)

\* C24: after preProcessing IDSpace is the ascending sequence, without
\* duplicates, of the IDs of [Min, Max] that are neither a key of the loaded
\* til.json nor a key of the loaded li.json.
C24_IDSpaceIsTheUnusedRange ==
    (pc = "walk" /\ pos = 1) =>
        /\ IDSpace = SortedSeq({n \in Min..Max : n \notin LoadedKeys})
        /\ \A i \in DOMAIN IDSpace : \A j \in DOMAIN IDSpace : i < j => IDSpace[i] < IDSpace[j]

C24_Witness ==
    /\ pc = "walk"
    /\ pos = 1
    /\ Min = 1
    /\ LoadedKeys = {1, 2, OutID}
    /\ IDSpace = <<MaxRange>>

\* ==================================== further claims on the line composer
\* the spellings of a line break: CR LF, the escaped \r\n, the escaped \n, LF
Spellings == {<<CR, LF>>, <<BS, "r", BS, "n">>, <<BS, "n">>, <<LF>>}

\* no piece of s is part of a spelling of a line break
IsText(s) == \A i \in DOMAIN s : s[i] \notin {LF, CR, BS}

\* s is text, the spelling sp once, text
HoldsOnce(s, sp) ==
    \E i \in 0..(Len(s) - Len(sp)) :
        /\ SubSeq(s, i + 1, i + Len(sp)) = sp
        /\ IsText(SubSeq(s, 1, i))
        /\ IsText(SubSeq(s, i + Len(sp) + 1, Len(s)))

\* C25: each spelling of a line break counts as exactly one line break: a
\* fragment that holds one of the spellings once has WriteString hand over
\* exactly one line.
C25_OneSpellingOneLine ==
    \A i \in DOMAIN calls :
        \A sp \in Spellings : HoldsOnce(calls[i].s, sp) => calls[i].lines = 1

C25_Witness ==
    /\ Len(calls) = 3
    /\ HoldsOnce(calls[1].s, <<CR, LF>>)
    /\ HoldsOnce(calls[2].s, <<BS, "r", BS, "n">>)
    /\ HoldsOnce(calls[3].s, <<BS, "n">>)
    /\ Len(lw) = 3

\* p.line as the call i found it
Found(i) == IF i = 1 THEN <<>> ELSE calls[i - 1].kept

\* C26: WriteString with the empty string returns (0, nil), hands no line to
\* the line writer and leaves the line in progress as it was.
C26_EmptyStringNoEffect ==
    \A i \in DOMAIN calls :
        calls[i].s = <<>> =>
            /\ calls[i].n = 0
            /\ calls[i].err = "nil"
            /\ calls[i].lines = 0
            /\ calls[i].kept = Found(i)

C26_Witness ==
    /\ Len(calls) = 2
    /\ calls[1].s = <<"a">>
    /\ calls[2].s = <<>>
    /\ calls[2].kept = <<<<Stamps[1], "  ">>, <<"[", " ">>, <<"a">>>>
    /\ lw = <<>>

\* the call i found p.line empty and its fragment ends with a line break
EndsLineOnEmpty(i) ==
    LET n == Normalize(calls[i].s)
    IN  Found(i) = <<>> /\ n # <<>> /\ n[Len(n)] = LF

\* C30: a call that finds the line in progress empty and whose fragment ends
\* with a line break leaves it empty: no timestamp is kept for the line that
\* has not begun, and that line gets the timestamp of the later call that
\* brings its first characters.
C30_NoStampForUnbegunLine ==
    LET lay == Layout
    IN  \A i \in DOMAIN calls :
            EndsLineOnEmpty(i) =>
                /\ calls[i].kept = <<>>
                /\ lay.upTo[i] + 1 \in DOMAIN lw =>
                      /\ StartCall(lay, lay.upTo[i] + 1) > i
                      /\ Stamp(lw[lay.upTo[i] + 1].was) = calls[StartCall(lay, lay.upTo[i] + 1)].ts

C30_Witness ==
    /\ Len(calls) = 3
    /\ calls[1].s = <<"a", LF>>
    /\ calls[2].s = <<>>
    /\ calls[3].s = <<"a", LF>>
    /\ calls[1].kept = <<>>
    /\ Len(lw) = 2
    /\ Stamp(lw[2].was) = <<Stamps[3], "  ">>

\* C27: a frame whose payload has another number of bytes than the
\* registered type of its ID requires yields no TraceRecord and is reported,
\* and the framer leaves EMIT for SYNCING in every case.
WrongLength(f, order) ==
    /\ ~BadHeader(f)
    /\ FrameID(f, order) \in DOMAIN Registered
    /\ Len(Payload(f)) # Expected(FrameID(f, order))

C27_MismatchEmitsNothing ==
    [][frState = "EMIT" =>
         /\ frState' = "SYNCING"
         /\ WrongLength(frame, endianness) => (records' = records /\ reported' = reported + 1)]_vars

C27_Witness ==
    /\ frState = "SYNCING"
    /\ wire = <<>>
    /\ Len(encoded) = 2
    /\ encoded[1].kind = "record" /\ ~WellFormed(encoded[1])
    /\ WellFormed(encoded[2])
    /\ reported = 1
    /\ Len(records) = 1

\* C28: a wire made of the frames of registered IDs, each with parameter
\* bytes of the required length, is decoded into the TraceRecords of the same
\* IDs, timestamp widths and parameter bytes, in the order sent.
RECURSIVE Decoded(_)
Decoded(es) ==
    IF es = <<>> THEN <<>>
    ELSE IF Head(es).kind = "stray" THEN Decoded(Tail(es))
    ELSE <<[id |-> Head(es).id,
            timestampBits |-> Head(es).bits,
            rawParamBytes |-> Head(es).params]>> \o Decoded(Tail(es))

AllWellFormed == \A i \in 1..Len(encoded) : WellFormed(encoded[i]) \/ encoded[i].kind = "stray"

C28_RoundTrip ==
    (frState = "SYNCING" /\ wire = <<>> /\ AllWellFormed) =>
        /\ records = Decoded(encoded)
        /\ reported = 0

C28_Witness ==
    /\ frState = "SYNCING"
    /\ wire = <<>>
    /\ endianness = "little"
    /\ Len(encoded) = 2
    /\ encoded[1].id = 258 /\ encoded[1].params = <<1, 2>>
    /\ encoded[2].id = 2 /\ encoded[2].params = <<SyncByte, 1>> /\ encoded[2].bits = 16
    /\ Len(records) = 2

\* C29: a call site whose ID is in use under another format, or whose ID
\* cannot be accepted, does not end the walk: every call site is processed,
\* and a call site behind it with an unused ID n # 0 of the range puts its
\* format under n into the ID lookup.
Collides(i) ==
    LET s == start.src[i]
    IN  /\ s.id # 0
        /\ InRange(s.id)
        /\ \/ \E k \in 1..(i - 1) : start.src[k].id = s.id /\ start.src[k].fmt # s.fmt
           \/ s.id \in DOMAIN NewLut(start.til) /\ NewLut(start.til)[s.id] # s.fmt

Malformed(i) == start.src[i].id # 0 /\ ~InRange(start.src[i].id)

UsedBefore(j) ==
    DOMAIN NewLut(start.til) \cup {resolved[k] : k \in {i \in 1..(j - 1) : ~Malformed(i)}}

FreshBehindTrouble(j) ==
    /\ j \in 2..Len(resolved)
    /\ \E i \in 1..(j - 1) : Collides(i) \/ Malformed(i)
    /\ start.src[j].id # 0
    /\ InRange(start.src[j].id)
    /\ start.src[j].id \notin UsedBefore(j)

C29_WalkGoesOn ==
    /\ pc = "done" => Len(resolved) = Len(start.src)
    /\ (pc = "walk" /\ FreshBehindTrouble(pos - 1)) =>
          /\ start.src[pos - 1].id \in DOMAIN idToTrice
          /\ idToTrice[start.src[pos - 1].id] = start.src[pos - 1].fmt
          /\ start.src[pos - 1].id \in DOMAIN added

C29_Witness ==
    /\ pc = "walk"
    /\ pos = 4
    /\ start.src[1].id = 1
    /\ Collides(2)
    /\ FreshBehindTrouble(3)
    /\ idToTrice[2] = start.src[3].fmt

C29_MalformedSeen ==
    /\ pc = "walk"
    /\ pos = 3
    /\ Malformed(1)
    /\ FreshBehindTrouble(2)
    /\ idToTrice[start.src[2].id] = start.src[2].fmt

\* C31: the lines begun in one WriteString call carry the same timestamp,
\* the one read from the clock at the start of that call.
C31_OneStampPerCall ==
    /\ \A i \in DOMAIN lw :
          /\ Stamp(lw[i].was) = timestamp(timestampFormat, lw[i].started)
          /\ \A j \in DOMAIN lw :
                lw[i].started = lw[j].started => Stamp(lw[i].was) = Stamp(lw[j].was)
    /\ line.len > 0 => Stamp(View(heap, line)) = timestamp(timestampFormat, started)

C31_Witness ==
    /\ timestampFormat = "LOCmicro"
    /\ Len(calls) = 2
    /\ calls[2].s = <<"a", LF, "b", LF, "c", LF>>
    /\ Len(lw) = 4
    /\ lw[2].started = 2 /\ lw[3].started = 2 /\ lw[4].started = 2
    /\ Stamp(lw[2].was) = <<Stamps[2], "  ">>
    /\ Stamp(lw[4].was) = <<Stamps[2], "  ">>
    /\ Stamp(lw[1].was) = <<Stamps[1], "  ">>

\* the bodies of the lines handed over, in order, then the body of the line
\* in progress
RECURSIVE Bodies(_)
Bodies(j) == IF j = 0 THEN <<>> ELSE Bodies(j - 1) \o Body(lw[j].was)

InProgress ==
    LET v == View(heap, line)
    IN  IF v = <<>> THEN <<>> ELSE Flat(SubSeq(v, 3, Len(v)))

Unbroken(s) == Flat(Split(s, LF))

LineBreaks(s) == Cardinality({i \in DOMAIN s : s[i] = LF})

\* the strings of the calls 1..j as they were passed, one after the other
RECURSIVE Passed(_)
Passed(j) == IF j = 0 THEN <<>> ELSE Passed(j - 1) \o calls[j].s

\* C38 as stated: the bodies of the lines handed over and of the line in
\* progress are the normalized concatenation of all strings passed, without
\* its line breaks, and there are as many lines as line breaks in it.
C38_NoTextLostOfWholeInput ==
    LET all == Normalize(Passed(Len(calls)))
    IN  /\ Bodies(Len(lw)) \o InProgress = Unbroken(all)
        /\ Len(lw) = LineBreaks(all)

\* C38 (amended): the bodies of the lines handed over and of the line in
\* progress are the strings passed, each normalized on its own, one after
\* the other and without the line breaks; there are as many lines as line
\* breaks in them.
C38_NoTextLost ==
    LET all == Stream(Len(calls))
    IN  /\ Bodies(Len(lw)) \o InProgress = Unbroken(all)
        /\ Len(lw) = LineBreaks(all)

C38_Witness ==
    /\ Len(calls) = 3
    /\ calls[1].s = <<"a", CR>>
    /\ calls[2].s = <<LF, "b">>
    /\ calls[3].s = <<"a">>
    /\ Len(lw) = 1
    /\ Body(lw[1].was) = <<"a", CR>>
    /\ InProgress = <<"b", "a">>

\* the IDs # 0 of the range that the call sites 1..j carry
Carried(j) == {src0[i].id : i \in {x \in 1..j : src0[x].id > 0 /\ InRange(src0[x].id)}}

\* the IDs given to call sites with ID 0
Given == {allocs[i].id : i \in DOMAIN allocs}

C32_RepeatedIDSeen ==
    /\ pc = "done"
    /\ start.til = <<>>
    /\ Len(src0) = 3
    /\ src0[1].id = 1
    /\ src0[2].id = 1
    /\ src0[3] = LastSite
    /\ DOMAIN idToTrice = {1, 2}

\* the call site i carries an ID # 0 of the range that was not loaded and that
\* no call site ahead of it carries or was given
FirstOfItsID(i) ==
    /\ src0[i].id > 0
    /\ InRange(src0[i].id)
    /\ src0[i].id \notin UsedBefore(i)

\* C33: two call sites that carry different IDs # 0 and the identical
\* (Type, Strg) pair have, after the pass, an entry each under their own ID,
\* with the Type and the Strg as the source spells them, and each call site
\* resolves to its own ID.
C33_SeparateEntries ==
    pc = "done" =>
        \A i, j \in DOMAIN src0 :
            (/\ i < j
             /\ FirstOfItsID(i)
             /\ FirstOfItsID(j)
             /\ src0[i].fmt = src0[j].fmt)
            => /\ resolved[i] = src0[i].id
               /\ resolved[j] = src0[j].id
               /\ {src0[i].id, src0[j].id} \subseteq DOMAIN idToTrice
               /\ idToTrice[src0[i].id] = src0[i].fmt
               /\ idToTrice[src0[j].id] = src0[j].fmt

C33_HoldsWithFreshIDs == C4_AllocatedIDsFresh => C33_SeparateEntries

C33_SeparateEntriesSeen ==
    /\ pc = "done"
    /\ allocs = <<>>
    /\ Len(src0) = 2
    /\ src0[1].id = 1 /\ src0[2].id = 2
    /\ src0[1].fmt = src0[2].fmt
    /\ DOMAIN idToTrice = {1, 2}
    /\ idToTrice[1] = idToTrice[2]

\* C34: with the location file switched off ("off" or "none") a pass does not
\* read li.json (the reference table stays empty and the keys of li.json are
\* not kept out of IDSpace) and does not write it.
C34_SwitchedOffNoLocationFile ==
    LIFnJSON \in {"off", "none"} =>
        /\ liFile = start.li
        /\ pc \in {"walk", "done", "fatal"} =>
              /\ idToLocRef = EmptyMap
              /\ \A k \in DOMAIN start.li :
                    (InRange(k) /\ k \notin DOMAIN til0) => k \in Range(IDSpace) \cup Given

C34_Witness ==
    /\ LIFnJSON = "none"
    /\ pc = "done"
    /\ start.li # EmptyMap
    /\ liFile = start.li
    /\ 2 \in DOMAIN start.li
    /\ 2 \in Range(IDSpace)
    /\ idToLocNew # EmptyMap
    /\ idToLocNew # liFile

\* the call site i carries an ID # 0 that the ID lookup holds with another
\* format when the walk is through i
FormatMismatch(i) ==
    /\ src0[i].id > 0
    /\ InRange(src0[i].id)
    /\ i \in DOMAIN resolved
    /\ src0[i].id \in DOMAIN idToTrice
    /\ idToTrice[src0[i].id] # src0[i].fmt

\* C35: every call site walked that carries an ID # 0 of the range has its ID
\* in the new location table, and the call site the walk has just left is the
\* location recorded for its ID, also when the ID lookup holds that ID with
\* another format.
C35_EverySiteLocated ==
    pc \in {"walk", "done"} =>
        /\ \A i \in DOMAIN resolved :
              (src0[i].id > 0 /\ InRange(src0[i].id)) => src0[i].id \in DOMAIN idToLocNew
        /\ (pos > 1 /\ src0[pos - 1].id > 0 /\ InRange(src0[pos - 1].id)) =>
              idToLocNew[src0[pos - 1].id] = pos - 1

C35_Witness ==
    /\ pc = "walk"
    /\ pos = 3
    /\ start.til = <<>>
    /\ src0[1].id = 1
    /\ FormatMismatch(2)
    /\ idToTrice[1] = src0[1].fmt
    /\ idToLocNew[1] = 2

\* C36: a write of til.json or li.json that fails at the end of a pass is
\* fatal: the pass is in the fatal state, cmdManageTriceIDs has not returned,
\* and nothing was written after the write that failed
C36_WriteFailureIsFatal ==
    writeErr # "nil" =>
        /\ pc = "fatal"
        /\ ret = "none"
        /\ pos > Len(srcTree)
        /\ liFile = start.li
        /\ writeErr = "til.json" => tilFile = start.til

C36_Witness ==
    /\ writeErr = "li.json"
    /\ pc = "fatal"
    /\ tilFile # start.til
    /\ idToLocNew # liFile

\* the pass also met a failing write of til.json
C36_TilFailureSeen == writeErr = "til.json" /\ idsAdded > 0 /\ idToLocNew # liFile

\* C37: cmdManageTriceIDs runs preProcessing, the walk and postProcessing, in
\* this order and once each, whatever the walk returned: nothing is resolved
\* before preProcessing; during the walk the lookup is the one loaded from the
\* files as they were at the start and no file is written; when
\* cmdManageTriceIDs has returned, the walk went over every call site once,
\* postProcessing counted what the walk added, and the value returned is the
\* error of the walk
WalkError == \E i \in DOMAIN start.src : start.src[i].id = Unreadable

C37_ThreePhasesInOrder ==
    /\ pc = "start" => (resolved = <<>> /\ ret = "none")
    /\ pc = "walk" => (idCount = Cardinality(DOMAIN NewLut(start.til)) /\ ret = "none"
                        /\ Len(resolved) = pos - 1 /\ tilFile = start.til /\ liFile = start.li)
    /\ pc = "done" =>
          /\ idCount = Cardinality(DOMAIN NewLut(start.til))
          /\ Len(resolved) = Len(start.src)
          /\ pos = Len(srcTree) + 1
          /\ idsAdded = Cardinality(DOMAIN idToTrice) - idCount
          /\ ret = IF WalkError THEN "walk error" ELSE "nil"
          /\ err = ret

C37_Witness ==
    /\ pc = "done"
    /\ ret = "walk error"
    /\ Len(start.src) = 2
    /\ tilFile # start.til
    /\ liFile # start.li

\* ============================================ claims on the remote display
\* C39: once a call Server.WriteLine has stored an error, writeLine makes no
\* further call: only the last call the server got can have failed, the
\* process runs on with the stored error until the next line is written, and
\* that writeLine ends the process before it calls the server
C39_NoCallAfterStoredError ==
    /\ \A i \in 1..(Len(served) - 1) : served[i].err = "nil"
    /\ \A i \in DOMAIN served : served[i].line = written[i]
    /\ (served # <<>> /\ served[Len(served)].err # "nil") =>
          /\ Err = served[Len(served)].err
          /\ IF Len(written) = Len(served) THEN rdPc = "running"
             ELSE rdPc = "exited" /\ Len(written) = Len(served) + 1
    /\ (served = <<>> \/ served[Len(served)].err = "nil") =>
          (Len(written) = Len(served) /\ (PtrRPC # "nil" => (Err = "nil" /\ rdPc = "running")))

C39_Witness ==
    /\ rdPc = "exited"
    /\ Len(served) = 2
    /\ served[2].err = "call error"
    /\ Len(written) = 3

\* the process runs on with a stored error as long as no line is written
C39_ErrorPending == rdPc = "running" /\ Err = "call error" /\ Len(written) = Len(served)

\* ============================================== claims on the command line
\* C40: with an argument list of fewer than 2 elements HandleArgs returns the
\* error "no args, try: 'trice help'" and runs no subcommand; with a
\* subcommand it does not know it runs no subcommand and returns nil
C40_NoSubcommandNoRun ==
    returned # "pending" =>
        /\ Len(args) < 2 => (returned = NoArgs /\ ran = "none")
        /\ (Len(args) >= 2 /\ args[2] \notin SubCmds) => (returned = "nil" /\ ran = "none")

\* the same when HandleArgs looks at the list that os.Args is
C40_HoldsForOsArgs == args = osArgs => C40_NoSubcommandNoRun

\* no subcommand runs unless the argument list names it
C40_RunsWhatIsNamed == ran # "none" => (Len(args) >= 2 /\ ran = FlagSetOf(args[2]))

C40_PanicSeen == returned = "panic: index out of range" /\ args = <<"trice">>
====
